---- MODULE Spec2Model ----
(***************************************************************************)
(* MQTT 3.1.1 client engine of gsm_at_lib/src/apps/mqtt/gsm_mqtt_client.c. *)
(*                                                                         *)
(* The client structure (gsm_mqtt_client_t) is the record `client`; the    *)
(* transport underneath it (gsm_conn) is the record `net`; `evts` holds    *)
(* the application events the last handler delivered through evt_fn, each  *)
(* with a snapshot of what the callback could observe at that moment;      *)
(* `ghost` is history kept only for stating properties (it is never read   *)
(* by a handler).                                                          *)
(*                                                                         *)
(* Every handler of the C file is an operator from a world record          *)
(*   w = [c |-> client, n |-> net, g |-> ghost, e |-> events]              *)
(* to the world after the handler returned (with the value returned, for   *)
(* an API function); an action applies one handler and commits the result. *)
(* All entries are serialized by the core lock, so a handler is one atomic *)
(* step.                                                                   *)
(***************************************************************************)
EXTENDS Integers, Sequences, FiniteSets, TLC

VARIABLES client, net, ghost, evts

vars == <<client, net, ghost, evts>>

---------------------------------------------------------------------------
(* Bounds of the model *)

\* tx_buff_len given to gsm_mqtt_client_new
TxLen == 16
\* rx_buff_len given to gsm_mqtt_client_new
RxLen == 4
\* number of request slots (GSM_CFG_MQTT_MAX_REQUESTS)
MaxRequests == 3
\* number of API calls that change the client: a connect that starts the
\* transport, a publish, subscribe or unsubscribe that takes a packet id
MaxCalls == 4
\* the same number on the transmit path, where a packet queued behind a
\* queued one, across the end of the tx ring, takes four publishes
MaxCallsTx == 5
\* the same number on the packet-id path: a connect and two publishes
MaxCallsId == 3
\* requests made over the life of the client on the packet-id path: enough
\* for the 16-bit packet id to come round once
MaxArgs == 65540
\* bytes encoded into the tx buffer over one connection
MaxStream == 48
\* POLL events counted by poll_time before something resets it
MaxPolls == 4

(* Program constants *)
GSM_CFG_CONN_POLL_INTERVAL == 500

MQTT_MSG_TYPE_CONNECT == 1
MQTT_MSG_TYPE_CONNACK == 2
MQTT_MSG_TYPE_PUBLISH == 3
MQTT_MSG_TYPE_PUBACK == 4
MQTT_MSG_TYPE_PUBREC == 5
MQTT_MSG_TYPE_PUBREL == 6
MQTT_MSG_TYPE_PUBCOMP == 7
MQTT_MSG_TYPE_SUBSCRIBE == 8
MQTT_MSG_TYPE_SUBACK == 9
MQTT_MSG_TYPE_UNSUBSCRIBE == 10
MQTT_MSG_TYPE_UNSUBACK == 11
MQTT_MSG_TYPE_PINGREQ == 12
MQTT_MSG_TYPE_PINGRESP == 13

MQTT_FLAG_CONNECT_CLEAN_SESSION == 2

MQTT_PARSER_STATE_INIT == 0
MQTT_PARSER_STATE_CALC_REM_LEN == 1
MQTT_PARSER_STATE_READ_REM == 2

U16 == 65536

Slots == 1..MaxRequests

Min(a, b) == IF a < b THEN a ELSE b

---------------------------------------------------------------------------
(* Ring transmit buffer (gsm_buff_t): read index r, write index w, and the *)
(* bytes held between them, oldest first.                                  *)

gsm_buff_get_free(b) ==
    (IF b.w = b.r THEN TxLen
     ELSE IF b.r > b.w THEN b.r - b.w
     ELSE TxLen - (b.w - b.r)) - 1

gsm_buff_get_full(b) ==
    IF b.w = b.r THEN 0
    ELSE IF b.w > b.r THEN b.w - b.r
    ELSE TxLen - (b.r - b.w)

gsm_buff_write(b, bytes) ==
    LET n == Min(Len(bytes), gsm_buff_get_free(b))
    IN [b EXCEPT !.data = @ \o SubSeq(bytes, 1, n), !.w = (@ + n) % TxLen]

gsm_buff_get_linear_block_read_length(b) ==
    IF b.w > b.r THEN b.w - b.r
    ELSE IF b.r > b.w THEN TxLen - b.r
    ELSE 0

gsm_buff_skip(b, len) ==
    LET n == Min(len, gsm_buff_get_full(b))
    IN [b EXCEPT !.data = SubSeq(@, n + 1, Len(@)), !.r = (@ + n) % TxLen]

gsm_buff_reset(b) == [r |-> 0, w |-> 0, data |-> <<>>]

---------------------------------------------------------------------------
(* Application events *)

InUse(c) == {i \in Slots : "IN_USE" \in c.requests[i].status}

\* fields of an event that its type does not use
EvtDefaults ==
    [arg |-> 0, res |-> "-", status |-> 0, is_accepted |-> FALSE, recv |-> <<>>, g_end |-> 0]

\* client->evt_fn(client, &client->evt): the event (its type and the fields
\* `f` of the union it sets), with what the callback can observe of the
\* client while it runs
Emit(w, type, f) ==
    LET ev == f @@ EvtDefaults
    IN [w EXCEPT
        !.e = Append(@, [type |-> type] @@ ev @@
                        [conn_state |-> w.c.conn_state,
                         conn |-> w.c.conn,
                         in_use |-> Cardinality(InUse(w.c)),
                         written_total |-> w.c.written_total,
                         sent_total |-> w.c.sent_total,
                         is_sending |-> w.c.is_sending,
                         tx_full |-> gsm_buff_get_full(w.c.tx_buff),
                         parser_state |-> w.c.parser_state,
                         acked |-> w.g.acked])]

---------------------------------------------------------------------------
(* Packet ids and the request table *)

\* a generator that only counts modulo 2^16
create_packet_id_plain(c) == (c.last_packet_id + 1) % U16

\* create_packet_id: the new client->last_packet_id, which is also returned
create_packet_id(c) ==
    LET n == (c.last_packet_id + 1) % U16
    IN IF n = 0 THEN 1 ELSE n

\* a table that gives its first slot away again when every slot is taken
request_create_slot_reuse(c) ==
    IF \E i \in Slots : "IN_USE" \notin c.requests[i].status
    THEN CHOOSE i \in Slots :
            /\ "IN_USE" \notin c.requests[i].status
            /\ \A j \in Slots : j < i => "IN_USE" \in c.requests[j].status
    ELSE 1

\* index of the slot request_create takes, 0 for NULL
request_create_slot(c) ==
    IF \E i \in Slots : "IN_USE" \notin c.requests[i].status
    THEN CHOOSE i \in Slots :
            /\ "IN_USE" \notin c.requests[i].status
            /\ \A j \in Slots : j < i => "IN_USE" \in c.requests[j].status
    ELSE 0

request_create(c, packet_id, arg) ==
    LET i == request_create_slot(c)
    IN IF i = 0 THEN c
       ELSE [c EXCEPT !.requests[i].packet_id = packet_id,
                      !.requests[i].arg = arg,
                      !.requests[i].status = {"IN_USE"}]

\* request_delete that frees the slot and leaves it pending
request_delete_keep_pending(c, i) == [c EXCEPT !.requests[i].status = @ \ {"IN_USE"}]

request_delete(c, i) == [c EXCEPT !.requests[i].status = {}]

request_set_pending(c, i) == [c EXCEPT !.requests[i].status = @ \cup {"PENDING"}]

\* the last pending slot with that packet id
request_get_pending_last(c, pkt_id) ==
    LET match(i) == /\ "PENDING" \in c.requests[i].status
                    /\ (pkt_id = -1 \/ c.requests[i].packet_id = pkt_id % U16)
    IN IF \E i \in Slots : match(i)
       THEN CHOOSE i \in Slots : match(i) /\ \A j \in Slots : j > i => ~match(j)
       ELSE 0

\* the first pending slot, whatever packet id was asked for (arrival order)
request_get_pending_first(c, pkt_id) ==
    IF \E i \in Slots : "PENDING" \in c.requests[i].status
    THEN CHOOSE i \in Slots :
            /\ "PENDING" \in c.requests[i].status
            /\ \A j \in Slots : j < i => "PENDING" \notin c.requests[j].status
    ELSE 0

\* request_get_pending: index of the first pending slot with that packet id
\* (any packet id when pkt_id = -1), 0 for NULL
request_get_pending(c, pkt_id) ==
    LET match(i) == /\ "PENDING" \in c.requests[i].status
                    /\ (pkt_id = -1 \/ c.requests[i].packet_id = pkt_id % U16)
    IN IF \E i \in Slots : match(i)
       THEN CHOOSE i \in Slots : match(i) /\ \A j \in Slots : j < i => ~match(j)
       ELSE 0

request_send_err_callback(w, status, arg) ==
    LET type == IF "SUBSCRIBE" \in status THEN "SUBSCRIBE"
                ELSE IF "UNSUBSCRIBE" \in status THEN "UNSUBSCRIBE"
                ELSE "PUBLISH"
    IN Emit(w, type, [arg |-> arg, res |-> "ERR"])

---------------------------------------------------------------------------
(* Packet encoder *)

\* bytes appended to the tx buffer; ghost.stream counts them per connection
tx_write(w, bytes) ==
    [w EXCEPT !.c.tx_buff = gsm_buff_write(@, bytes),
              !.g.stream = @ + Min(Len(bytes), gsm_buff_get_free(w.c.tx_buff))]

\* the remaining-length bytes of write_fixed_header's do-while loop
RECURSIVE rem_len_bytes(_)
rem_len_bytes(rem_len) ==
    <<(rem_len % 128) + (IF rem_len > 127 THEN 128 ELSE 0)>>
        \o (IF rem_len \div 128 # 0 THEN rem_len_bytes(rem_len \div 128) ELSE <<>>)

write_fixed_header(w, type, dup, qos, retain, rem_len) ==
    LET b == ((type * 16) % 256) + (IF dup # 0 THEN 8 ELSE 0)
                + ((qos % 4) * 2) + (IF retain # 0 THEN 1 ELSE 0)
    IN tx_write(tx_write(w, <<b>>), rem_len_bytes(rem_len % U16))

write_u8(w, num) == tx_write(w, <<num % 256>>)

write_u16(w, num) == write_u8(write_u8(w, (num \div 256) % 256), num % 256)

write_data(w, data) == tx_write(w, data)

write_string(w, str) == tx_write(write_u16(w, Len(str)), str)

\* number of raw bytes of a packet with that remaining length, 0 when the tx
\* buffer has not that much free (arguments and result are uint16_t)
output_check_enough_memory(c, rem_len) ==
    LET total_len == ((rem_len % U16) + 1 + Len(rem_len_bytes(rem_len % U16))) % U16
    IN IF gsm_buff_get_free(c.tx_buff) % U16 >= total_len THEN total_len ELSE 0

---------------------------------------------------------------------------
(* Transport under the client: gsm_conn_send, gsm_conn_close *)

\* gsm_conn_send accepts a block on an active connection nobody asked to close
gsm_conn_send_ok(n) == n.tcp = "active" /\ ~n.close_req

\* a send that does not count what it hands to the transport
send_data_uncounted(w) ==
    IF w.c.is_sending # 0 THEN w
    ELSE LET len == gsm_buff_get_linear_block_read_length(w.c.tx_buff)
         IN IF len > 0
            THEN IF gsm_conn_send_ok(w.n)
                 THEN [w EXCEPT !.c.is_sending = 1, !.n.inflight = len]
                 ELSE w
            ELSE [w EXCEPT !.c.tx_buff = gsm_buff_reset(@)]

\* send_data without the early return while a send is outstanding
send_data_while_sending(w) ==
    LET len == gsm_buff_get_linear_block_read_length(w.c.tx_buff)
    IN IF len > 0
       THEN IF gsm_conn_send_ok(w.n)
            THEN [w EXCEPT !.c.written_total = @ + len,
                           !.c.is_sending = 1,
                           !.n.inflight = len]
            ELSE w
       ELSE [w EXCEPT !.c.tx_buff = gsm_buff_reset(@)]

send_data(w) ==
    IF w.c.is_sending # 0 THEN w
    ELSE LET len == gsm_buff_get_linear_block_read_length(w.c.tx_buff)
         IN IF len > 0
            THEN IF gsm_conn_send_ok(w.n)
                 THEN [w EXCEPT !.c.written_total = @ + len,
                                !.c.is_sending = 1,
                                !.n.inflight = len]
                 ELSE w
            ELSE [w EXCEPT !.c.tx_buff = gsm_buff_reset(@)]

write_ack_rec_rel_resp(w, msg_type, pkt_id, qos) ==
    IF output_check_enough_memory(w.c, 2) # 0
    THEN send_data(write_u16(write_fixed_header(w, msg_type, 0, qos, 0, 2), pkt_id))
    ELSE w

\* a close that asks the transport and forgets to record it in the state
mqtt_close_keep_state(w, cres) ==
    IF w.c.conn_state \notin {"CONN_DISCONNECTED", "CONN_DISCONNECTING"}
    THEN IF cres = "OK"
         THEN [w |-> [w EXCEPT !.n.close_req = TRUE], res |-> "OK"]
         ELSE [w |-> w, res |-> cres]
    ELSE [w |-> w, res |-> "ERR"]

\* mqtt_close; cres is what gsm_conn_close answers.  The world after, and
\* the value returned.
mqtt_close(w, cres) ==
    IF w.c.conn_state \notin {"CONN_DISCONNECTED", "CONN_DISCONNECTING"}
    THEN IF cres = "OK"
         THEN [w |-> [w EXCEPT !.c.conn_state = "CONN_DISCONNECTING",
                               !.n.close_req = TRUE],
               res |-> "OK"]
         ELSE [w |-> w, res |-> cres]
    ELSE [w |-> w, res |-> "ERR"]

---------------------------------------------------------------------------
(* Ghost bookkeeping of the requests the application made *)

\* the application made a request of that kind, now in slot i; its packet
\* ends at this offset of the connection's byte stream
Track(w, i, kind) ==
    [w EXCEPT !.g.end[i] = w.g.stream, !.g.kind[i] = kind, !.g.next_arg = @ + 1]

---------------------------------------------------------------------------
(* Application API *)

\* sub_unsub: the world after, and the value returned (1 or 0)
sub_unsub(w, topic, qos, arg, sub) ==
    LET len_topic == Len(topic) % U16
        rem_len == 2 + len_topic + 2 + (IF sub THEN 1 ELSE 0)
    IN IF len_topic = 0 THEN [w |-> w, ret |-> 0]
       ELSE IF /\ w.c.conn_state = "CONNECTED"
               /\ output_check_enough_memory(w.c, rem_len) # 0
       THEN LET pkt_id == create_packet_id(w.c)
                w1 == [w EXCEPT !.c.last_packet_id = pkt_id]
                i == request_create_slot(w1.c)
                w2 == [w1 EXCEPT !.c = request_create(@, pkt_id, arg)]
            IN IF i # 0
               THEN LET w3 == write_fixed_header(w2,
                                 IF sub THEN MQTT_MSG_TYPE_SUBSCRIBE
                                        ELSE MQTT_MSG_TYPE_UNSUBSCRIBE,
                                 0, 1, 0, rem_len)
                        w4 == write_string(write_u16(w3, pkt_id), topic)
                        w5 == IF sub THEN write_u8(w4, Min(qos % 256, 2)) ELSE w4
                        w6 == [w5 EXCEPT !.c.requests[i].status =
                                  @ \cup {IF sub THEN "SUBSCRIBE" ELSE "UNSUBSCRIBE"}]
                        w7 == [w6 EXCEPT !.c = request_set_pending(@, i)]
                        w8 == Track(w7, i, IF sub THEN "SUBSCRIBE" ELSE "UNSUBSCRIBE")
                    IN [w |-> send_data(w8), ret |-> 1]
               ELSE [w |-> w2, ret |-> 0]
       ELSE [w |-> w, ret |-> 0]

\* a subscribe that does not look at the connection state
gsm_mqtt_client_subscribe_any_state(w, topic, qos, arg) ==
    LET r == sub_unsub([w EXCEPT !.c.conn_state = "CONNECTED"], topic, qos, arg, TRUE)
    IN [w |-> [r.w EXCEPT !.c.conn_state = w.c.conn_state],
        res |-> IF r.ret = 1 THEN "OK" ELSE "ERR"]

gsm_mqtt_client_subscribe(w, topic, qos, arg) ==
    LET r == sub_unsub(w, topic, qos, arg, TRUE)
    IN [w |-> r.w, res |-> IF r.ret = 1 THEN "OK" ELSE "ERR"]

gsm_mqtt_client_unsubscribe(w, topic, arg) ==
    LET r == sub_unsub(w, topic, 0, arg, FALSE)
    IN [w |-> r.w, res |-> IF r.ret = 1 THEN "OK" ELSE "ERR"]

\* gsm_mqtt_client_publish (payload is never NULL here; it may be empty)
gsm_mqtt_client_publish(w, topic, payload, qos, retain, arg) ==
    LET len_topic == Len(topic) % U16
        qos_u8 == qos % 256
        rem_len == 2 + len_topic + Len(payload) + (IF qos_u8 > 0 THEN 2 ELSE 0)
        raw_len == output_check_enough_memory(w.c, rem_len)
    IN IF len_topic = 0 THEN [w |-> w, res |-> "ERR"]
       ELSE IF w.c.conn_state # "CONNECTED" THEN [w |-> w, res |-> "CLOSED"]
       ELSE IF raw_len # 0
       THEN LET pkt_id == IF qos_u8 > 0 THEN create_packet_id(w.c) ELSE 0
                w1 == IF qos_u8 > 0 THEN [w EXCEPT !.c.last_packet_id = pkt_id] ELSE w
                i == request_create_slot(w1.c)
                w2 == [w1 EXCEPT !.c = request_create(@, pkt_id, arg)]
            IN IF i # 0
               THEN LET w3 == [w2 EXCEPT !.c.requests[i].expected_sent_len =
                                            w2.c.written_total + raw_len]
                        w4 == write_fixed_header(w3, MQTT_MSG_TYPE_PUBLISH, 0,
                                                 Min(qos_u8, 2), retain, rem_len)
                        w5 == write_string(w4, topic)
                        w6 == IF qos_u8 # 0 THEN write_u16(w5, pkt_id) ELSE w5
                        w7 == IF Len(payload) # 0 THEN write_data(w6, payload) ELSE w6
                        w8 == [w7 EXCEPT !.c = request_set_pending(@, i)]
                        w9 == Track(w8, i, "PUBLISH")
                    IN [w |-> send_data(w9), res |-> "OK"]
               ELSE [w |-> w2, res |-> "ERRMEM"]
       ELSE [w |-> w, res |-> "ERRMEM"]

\* a connect that does not look at the connection state
gsm_mqtt_client_connect_any_state(w, info, attached, startres) ==
    IF attached /\ startres = "OK"
    THEN [w |-> [w EXCEPT !.c.info = info,
                          !.c.conn_state = "CONN_CONNECTING",
                          !.c.conn = "conn",
                          !.n.tcp = "starting",
                          !.g.calls = @ + 1],
          res |-> "OK"]
    ELSE [w |-> w, res |-> "ERR"]

\* gsm_mqtt_client_connect; attached is gsm_network_is_attached(), startres
\* what gsm_conn_start answers
gsm_mqtt_client_connect(w, info, attached, startres) ==
    IF attached /\ w.c.conn_state = "CONN_DISCONNECTED"
    THEN LET w1 == [w EXCEPT !.c.info = info]
         IN IF startres = "OK"
            THEN [w |-> [w1 EXCEPT !.c.conn_state = "CONN_CONNECTING",
                                   !.c.conn = "conn",
                                   !.n.tcp = "starting",
                                   !.g.calls = @ + 1],
                  res |-> "OK"]
            ELSE [w |-> w1, res |-> startres]
    ELSE [w |-> w, res |-> "ERR"]

gsm_mqtt_client_disconnect(w, cres) ==
    IF w.c.conn_state \notin {"CONN_DISCONNECTED", "CONN_DISCONNECTING"}
    THEN mqtt_close(w, cres)
    ELSE [w |-> w, res |-> "ERR"]

gsm_mqtt_client_is_connected(c) == c.conn_state = "CONNECTED"

---------------------------------------------------------------------------
(* Inbound dispatch and the streaming parser *)

MQTT_RCV_GET_PACKET_TYPE(d) == (d \div 16) % 16
MQTT_RCV_GET_PACKET_QOS(d) == (d \div 2) % 4
MQTT_RCV_GET_PACKET_DUP(d) == (d \div 8) % 2

\* a byte of the rx staging buffer (gsm_mem_malloc'ed) that was never written
Uninit == -1

\* rx_buff[i] (i counted from 0); a read of a byte that was never written, or
\* past the end of the memory the pointer owns, yields whatever lies there:
\* junk
RxAt(rx, i, junk) == IF i < Len(rx) /\ rx[i + 1] # Uninit THEN rx[i + 1] ELSE junk

\* a CONNACK that takes every return code, in every state, for an acceptance
process_connack_any(w, err) ==
    Emit([w EXCEPT !.c.conn_state = "CONNECTED"], "CONNECT", [status |-> err])

\* a CONNACK that is reported to the application in every state
process_connack_always(w, err) ==
    Emit(IF err = 0 /\ w.c.conn_state = "CONNECTING"
         THEN [w EXCEPT !.c.conn_state = "CONNECTED"] ELSE w,
         "CONNECT", [status |-> err])

\* case MQTT_MSG_TYPE_CONNACK of mqtt_process_incoming_message; err is
\* rx_buff[1]
process_connack(w, err) ==
    IF w.c.conn_state = "CONNECTING"
    THEN Emit(IF err = 0 THEN [w EXCEPT !.c.conn_state = "CONNECTED"] ELSE w,
              "CONNECT", [status |-> err])
    ELSE w

\* mqtt_process_incoming_message with client->rx_buff pointing at rx
mqtt_process_incoming_message(w, rx, junk) ==
    LET msg_type == MQTT_RCV_GET_PACKET_TYPE(w.c.msg_hdr_byte)
        b(i) == RxAt(rx, i, junk)
    IN
    IF msg_type = MQTT_MSG_TYPE_CONNACK
    THEN process_connack(w, b(1))
    ELSE IF msg_type = MQTT_MSG_TYPE_PUBLISH
    THEN LET qos == MQTT_RCV_GET_PACKET_QOS(w.c.msg_hdr_byte)
             dup == MQTT_RCV_GET_PACKET_DUP(w.c.msg_hdr_byte)
             topic_len == b(0) * 256 + b(1)
             pkt_id == IF qos > 0 THEN b(2 + topic_len) * 256 + b(2 + topic_len + 1)
                       ELSE 0
             data_off == 2 + topic_len + (IF qos > 0 THEN 2 ELSE 0)
             data_len == (w.c.msg_rem_len - data_off) % U16
             w1 == IF qos > 0
                   THEN write_ack_rec_rel_resp(w,
                            IF qos = 1 THEN MQTT_MSG_TYPE_PUBACK ELSE MQTT_MSG_TYPE_PUBREC,
                            pkt_id, qos)
                   ELSE w
         IN Emit(w1, "PUBLISH_RECV", [recv |-> <<topic_len, data_len, dup, qos>>])
    ELSE IF msg_type = MQTT_MSG_TYPE_PINGRESP
    THEN Emit(w, "KEEP_ALIVE", [arg |-> 0])
    ELSE IF msg_type \in {MQTT_MSG_TYPE_SUBACK, MQTT_MSG_TYPE_UNSUBACK, MQTT_MSG_TYPE_PUBREC,
                          MQTT_MSG_TYPE_PUBREL, MQTT_MSG_TYPE_PUBACK, MQTT_MSG_TYPE_PUBCOMP}
    THEN LET pkt_id == b(0) * 256 + b(1)
         IN IF msg_type = MQTT_MSG_TYPE_PUBREC
            THEN write_ack_rec_rel_resp(w, MQTT_MSG_TYPE_PUBREL, pkt_id, 1)
            ELSE IF msg_type = MQTT_MSG_TYPE_PUBREL
            THEN write_ack_rec_rel_resp(w, MQTT_MSG_TYPE_PUBCOMP, pkt_id, 0)
            ELSE LET i == request_get_pending(w.c, pkt_id)
                 IN IF i # 0
                    THEN LET arg == w.c.requests[i].arg
                             w1 == IF msg_type \in {MQTT_MSG_TYPE_SUBACK, MQTT_MSG_TYPE_UNSUBACK}
                                   THEN Emit(w, IF msg_type = MQTT_MSG_TYPE_SUBACK
                                                THEN "SUBSCRIBE" ELSE "UNSUBSCRIBE",
                                             [arg |-> arg,
                                              res |-> IF b(2) < 3 THEN "OK" ELSE "ERR"])
                                   ELSE Emit(w, "PUBLISH", [arg |-> arg, res |-> "OK"])
                         IN [w1 EXCEPT !.c = request_delete(@, i)]
                    ELSE w
    ELSE w

\* mqtt_parse_incoming over one linear block d, from byte idx (counted from 0)
RECURSIVE mqtt_parse_incoming(_, _, _, _)
mqtt_parse_incoming(w, d, idx, junk) ==
    IF idx >= Len(d) THEN w
    ELSE
    LET ch == d[idx + 1]
    IN
    IF w.c.parser_state = MQTT_PARSER_STATE_INIT
    THEN mqtt_parse_incoming(
            [w EXCEPT !.c.msg_hdr_byte = ch, !.c.msg_rem_len = 0,
                      !.c.msg_rem_len_mult = 0, !.c.msg_curr_pos = 0,
                      !.c.parser_state = MQTT_PARSER_STATE_CALC_REM_LEN],
            d, idx + 1, junk)
    ELSE IF w.c.parser_state = MQTT_PARSER_STATE_CALC_REM_LEN
    THEN \* the shifted 7-bit groups do not overlap, so |= adds
         LET w1 == [w EXCEPT !.c.msg_rem_len = @ + (ch % 128) * (128 ^ w.c.msg_rem_len_mult),
                             !.c.msg_rem_len_mult = (@ + 1) % 256]
         IN IF ch < 128
            THEN IF w1.c.msg_rem_len > 0
                 THEN IF (Len(d) - idx) > w1.c.msg_rem_len
                      THEN LET w2 == mqtt_process_incoming_message(
                                        w1, SubSeq(d, idx + 2, Len(d)), junk)
                           IN mqtt_parse_incoming(
                                [w2 EXCEPT !.c.parser_state = MQTT_PARSER_STATE_INIT],
                                d, idx + w1.c.msg_rem_len + 1, junk)
                      ELSE mqtt_parse_incoming(
                                [w1 EXCEPT !.c.parser_state = MQTT_PARSER_STATE_READ_REM],
                                d, idx + 1, junk)
                 ELSE LET w2 == mqtt_process_incoming_message(w1, w1.c.rx_buff, junk)
                      IN mqtt_parse_incoming(
                            [w2 EXCEPT !.c.parser_state = MQTT_PARSER_STATE_INIT],
                            d, idx + 1, junk)
            ELSE mqtt_parse_incoming(w1, d, idx + 1, junk)
    ELSE IF w.c.parser_state = MQTT_PARSER_STATE_READ_REM
    THEN LET w1 == IF w.c.msg_curr_pos < RxLen
                   THEN [w EXCEPT !.c.rx_buff[w.c.msg_curr_pos + 1] = ch]
                   ELSE w
             w2 == [w1 EXCEPT !.c.msg_curr_pos = @ + 1]
         IN IF w2.c.msg_curr_pos = w2.c.msg_rem_len
            THEN LET w3 == IF w2.c.msg_curr_pos <= RxLen
                           THEN mqtt_process_incoming_message(w2, w2.c.rx_buff, junk)
                           ELSE w2
                 IN mqtt_parse_incoming(
                        [w3 EXCEPT !.c.parser_state = MQTT_PARSER_STATE_INIT],
                        d, idx + 1, junk)
            ELSE mqtt_parse_incoming(w2, d, idx + 1, junk)
    ELSE mqtt_parse_incoming([w EXCEPT !.c.parser_state = MQTT_PARSER_STATE_INIT],
                             d, idx + 1, junk)

---------------------------------------------------------------------------
(* Connection callbacks *)

\* a CONNECT whose remaining length leaves out the length field of the id
mqtt_connected_cb_short_len(w) ==
    LET flags == MQTT_FLAG_CONNECT_CLEAN_SESSION
        rem_len == 10 + (Len(w.c.info.id) % U16)
    IN IF output_check_enough_memory(w.c, rem_len) = 0 THEN w
       ELSE LET w1 == write_fixed_header(w, MQTT_MSG_TYPE_CONNECT, 0, 0, 0, rem_len)
                w2 == write_string(w1, <<77, 81, 84, 84>>)
                w3 == write_u8(write_u8(w2, 4), flags)
                w4 == write_u16(w3, w.c.info.keep_alive)
                w5 == write_string(w4, w.c.info.id)
            IN send_data([w5 EXCEPT !.c.parser_state = MQTT_PARSER_STATE_INIT,
                                    !.c.poll_time = 0,
                                    !.c.conn_state = "CONNECTING"])

\* mqtt_connected_cb; the connection info carries neither will nor user nor
\* password
mqtt_connected_cb(w) ==
    LET flags == MQTT_FLAG_CONNECT_CLEAN_SESSION
        rem_len == 10 + (Len(w.c.info.id) % U16) + 2
    IN IF output_check_enough_memory(w.c, rem_len) = 0 THEN w
       ELSE LET w1 == write_fixed_header(w, MQTT_MSG_TYPE_CONNECT, 0, 0, 0, rem_len)
                w2 == write_string(w1, <<77, 81, 84, 84>>)
                w3 == write_u8(write_u8(w2, 4), flags)
                w4 == write_u16(w3, w.c.info.keep_alive)
                w5 == write_string(w4, w.c.info.id)
            IN send_data([w5 EXCEPT !.c.parser_state = MQTT_PARSER_STATE_INIT,
                                    !.c.poll_time = 0,
                                    !.c.conn_state = "CONNECTING"])

mqtt_data_recv_cb(w, d, junk) ==
    mqtt_parse_incoming([w EXCEPT !.c.poll_time = 0], d, 0, junk)

\* the while loop of mqtt_data_sent_cb over pending requests of packet id 0
RECURSIVE sent_qos0_loop(_)
sent_qos0_loop(w) ==
    LET i == request_get_pending(w.c, 0)
    IN IF i # 0 /\ w.c.sent_total >= w.c.requests[i].expected_sent_len
       THEN sent_qos0_loop(Emit([w EXCEPT !.c = request_delete(@, i)], "PUBLISH",
                                [arg |-> w.c.requests[i].arg, res |-> "OK",
                                 g_end |-> w.g.end[i]]))
       ELSE w

\* mqtt_data_sent_cb that leaves the bytes sent in the tx buffer
mqtt_data_sent_cb_no_skip(w, sent_len, successful, cres) ==
    LET w1 == [w EXCEPT !.c.is_sending = 0, !.c.sent_total = @ + sent_len,
                        !.c.poll_time = 0]
    IN IF ~successful THEN mqtt_close(w1, cres).w
       ELSE send_data(sent_qos0_loop(w1))

mqtt_data_sent_cb(w, sent_len, successful, cres) ==
    LET w1 == [w EXCEPT !.c.is_sending = 0, !.c.sent_total = @ + sent_len,
                        !.c.poll_time = 0]
    IN IF ~successful THEN mqtt_close(w1, cres).w
       ELSE send_data(sent_qos0_loop(
                [w1 EXCEPT !.c.tx_buff = gsm_buff_skip(@, sent_len)]))

\* mqtt_poll_cb without the reset of poll_time after the PINGREQ
mqtt_poll_cb_no_reset(w) ==
    LET w1 == [w EXCEPT !.c.poll_time = @ + 1]
    IN IF w1.c.conn_state = "CONN_DISCONNECTING" THEN w1
       ELSE IF /\ w1.c.info.keep_alive # 0
               /\ w1.c.poll_time * GSM_CFG_CONN_POLL_INTERVAL >= w1.c.info.keep_alive * 1000
       THEN IF output_check_enough_memory(w1.c, 0) # 0
            THEN send_data(write_fixed_header(w1, MQTT_MSG_TYPE_PINGREQ, 0, 0, 0, 0))
            ELSE w1
       ELSE w1

mqtt_poll_cb(w) ==
    LET w1 == [w EXCEPT !.c.poll_time = @ + 1]
    IN IF w1.c.conn_state = "CONN_DISCONNECTING" THEN w1
       ELSE IF /\ w1.c.info.keep_alive # 0
               /\ w1.c.poll_time * GSM_CFG_CONN_POLL_INTERVAL >= w1.c.info.keep_alive * 1000
       THEN IF output_check_enough_memory(w1.c, 0) # 0
            THEN LET w2 == send_data(write_fixed_header(w1, MQTT_MSG_TYPE_PINGREQ, 0, 0, 0, 0))
                 IN [w2 EXCEPT !.c.poll_time = 0]
            ELSE w1
       ELSE w1

ZeroRequest == [status |-> {}, packet_id |-> 0, arg |-> 0, expected_sent_len |-> 0]

\* a close that tells nobody of the requests it drops
closed_pending_loop_silent(w) == w

\* the while loop of mqtt_closed_cb over all pending requests
RECURSIVE closed_pending_loop(_)
closed_pending_loop(w) ==
    LET i == request_get_pending(w.c, -1)
    IN IF i # 0
       THEN closed_pending_loop(
                request_send_err_callback([w EXCEPT !.c = request_delete(@, i)],
                                          w.c.requests[i].status, w.c.requests[i].arg))
       ELSE w

\* a close is accepted only when it ends an established session
disconnect_is_accepted_connected(state) == state = "CONNECTED"

\* evt.disconnect.is_accepted of mqtt_closed_cb
disconnect_is_accepted(state) == state \in {"CONNECTED", "CONN_DISCONNECTING"}

\* the close fanout with the DISCONNECT event after the failure events
mqtt_closed_cb_disconnect_last(w) ==
    LET state == w.c.conn_state
        w1 == [w EXCEPT !.c.conn_state = "CONN_DISCONNECTED", !.c.conn = "NULL"]
        w2 == closed_pending_loop(w1)
        w3 == Emit(w2, "DISCONNECT", [is_accepted |-> disconnect_is_accepted(state)])
    IN [w3 EXCEPT !.c.requests = [i \in Slots |-> ZeroRequest],
                  !.c.is_sending = 0, !.c.sent_total = 0, !.c.written_total = 0,
                  !.c.parser_state = MQTT_PARSER_STATE_INIT,
                  !.c.tx_buff = gsm_buff_reset(@)]

\* the close fanout with the counters, the parser and the tx buffer reset
\* before the events
mqtt_closed_cb_reset_first(w) ==
    LET state == w.c.conn_state
        w1 == [w EXCEPT !.c.conn_state = "CONN_DISCONNECTED",
                        !.c.is_sending = 0, !.c.sent_total = 0, !.c.written_total = 0,
                        !.c.parser_state = MQTT_PARSER_STATE_INIT,
                        !.c.tx_buff = gsm_buff_reset(@)]
        w2 == Emit(w1, "DISCONNECT", [is_accepted |-> disconnect_is_accepted(state)])
        w3 == [w2 EXCEPT !.c.conn = "NULL"]
        w4 == closed_pending_loop(w3)
    IN [w4 EXCEPT !.c.requests = [i \in Slots |-> ZeroRequest]]

\* a close that fails the pending requests and leaves the table and the tx
\* buffer as they are
mqtt_closed_cb_no_reset(w) ==
    LET state == w.c.conn_state
        w1 == [w EXCEPT !.c.conn_state = "CONN_DISCONNECTED"]
        w2 == Emit(w1, "DISCONNECT", [is_accepted |-> disconnect_is_accepted(state)])
        w3 == [w2 EXCEPT !.c.conn = "NULL"]
        w4 == closed_pending_loop(w3)
    IN [w4 EXCEPT !.c.is_sending = 0, !.c.sent_total = 0, !.c.written_total = 0,
                  !.c.parser_state = MQTT_PARSER_STATE_INIT]

mqtt_closed_cb(w) ==
    LET state == w.c.conn_state
        w1 == [w EXCEPT !.c.conn_state = "CONN_DISCONNECTED"]
        w2 == Emit(w1, "DISCONNECT", [is_accepted |-> disconnect_is_accepted(state)])
        w3 == [w2 EXCEPT !.c.conn = "NULL"]
        w4 == closed_pending_loop(w3)
    IN [w4 EXCEPT !.c.requests = [i \in Slots |-> ZeroRequest],
                  !.c.is_sending = 0, !.c.sent_total = 0, !.c.written_total = 0,
                  !.c.parser_state = MQTT_PARSER_STATE_INIT,
                  !.c.tx_buff = gsm_buff_reset(@)]

GSM_MQTT_CONN_STATUS_TCP_FAILED == 256

\* mqtt_conn_cb, case GSM_EVT_CONN_ERROR
\* an error handler that reports the failure and keeps the state
mqtt_conn_error_keep_state(w) ==
    Emit(w, "CONNECT", [status |-> GSM_MQTT_CONN_STATUS_TCP_FAILED])

mqtt_conn_error(w) ==
    Emit([w EXCEPT !.c.conn_state = "CONN_DISCONNECTED"], "CONNECT",
         [status |-> GSM_MQTT_CONN_STATUS_TCP_FAILED])

---------------------------------------------------------------------------
(* Inputs *)

Connack(code) == <<32, 2, 0, code>>
Puback(id) == <<64, 2, id \div 256, id % 256>>
Pubrec(id) == <<80, 2, id \div 256, id % 256>>
Pubrel(id) == <<98, 2, id \div 256, id % 256>>
Pubcomp(id) == <<112, 2, id \div 256, id % 256>>
Suback(id, rc) == <<144, 3, id \div 256, id % 256, rc>>
Unsuback(id) == <<176, 2, id \div 256, id % 256>>
Pingresp == <<208, 0>>
\* inbound PUBLISH on topic "a" with payload "h"
PublishIn(qos, id) ==
    <<48 + 2 * qos>> \o (IF qos > 0 THEN <<6, 0, 1, 97, id \div 256, id % 256, 104>>
                                    ELSE <<4, 0, 1, 97, 104>>)

Topics == {<<>>, <<97>>}
Results == {"OK", "ERR"}
Info0 == [keep_alive |-> 0, id |-> <<99>>]
\* the same client with a keep-alive of one second: two poll intervals
Info1 == [keep_alive |-> 1, id |-> <<99>>]

\* what the broker sends in the session specification: whole frames, and an
\* accepting CONNACK cut in two
Frames == {Connack(0), Connack(5), Puback(1), Suback(1, 0)}
RxBlocks ==
    {[d |-> f, rest |-> <<>>] : f \in Frames}
    \cup {[d |-> <<32, 2>>, rest |-> <<0, 0>>], [d |-> <<0, 0>>, rest |-> <<>>]}

---------------------------------------------------------------------------
(* State machine *)

World == [c |-> client, n |-> net, g |-> ghost, e |-> <<>>]

\* an API call that changed the client counts against MaxCalls
Counted(w) == IF w.c # client THEN [w EXCEPT !.g.calls = @ + 1] ELSE w

Commit(w) ==
    /\ w.g.stream <= MaxStream
    /\ client' = w.c
    /\ net' = w.n
    /\ ghost' = [w.g EXCEPT
                    !.end = [i \in Slots |->
                        IF "PENDING" \in w.c.requests[i].status THEN @[i] ELSE 0],
                    !.kind = [i \in Slots |->
                        IF "PENDING" \in w.c.requests[i].status THEN @[i] ELSE "-"]]
    /\ evts' = w.e

Init ==
    /\ client = [conn |-> "NULL",
                  info |-> [keep_alive |-> 0, id |-> <<>>],
                  conn_state |-> "CONN_DISCONNECTED",
                  poll_time |-> 0,
                  tx_buff |-> [r |-> 0, w |-> 0, data |-> <<>>],
                  is_sending |-> 0, sent_total |-> 0, written_total |-> 0,
                  last_packet_id |-> 0,
                  requests |-> [i \in Slots |-> ZeroRequest],
                  rx_buff |-> [i \in 1..RxLen |-> Uninit],
                  parser_state |-> MQTT_PARSER_STATE_INIT,
                  msg_hdr_byte |-> 0, msg_rem_len |-> 0,
                  msg_rem_len_mult |-> 0, msg_curr_pos |-> 0]
    /\ net = [tcp |-> "idle", close_req |-> FALSE, inflight |-> 0, rx_rest |-> <<>>]
    /\ ghost = [stream |-> 0, acked |-> 0, next_arg |-> 1, calls |-> 0,
                end |-> [i \in Slots |-> 0], kind |-> [i \in Slots |-> "-"]]
    /\ evts = <<>>

Connect(info, attached, startres) ==
    /\ ghost.calls < MaxCalls
    /\ LET r == gsm_mqtt_client_connect(World, info, attached, startres)
       IN Commit(r.w)

Disconnect(cres) ==
    LET r == gsm_mqtt_client_disconnect(World, cres)
    IN Commit(r.w)

Publish(topic, payload, qos, retain, calls) ==
    /\ ghost.calls < calls
    /\ LET r == gsm_mqtt_client_publish(World, topic, payload, qos, retain, ghost.next_arg)
       IN Commit(Counted(r.w))

Subscribe(topic, qos) ==
    /\ ghost.calls < MaxCalls
    /\ LET r == gsm_mqtt_client_subscribe(World, topic, qos, ghost.next_arg)
       IN Commit(Counted(r.w))

Unsubscribe(topic) ==
    /\ ghost.calls < MaxCalls
    /\ LET r == gsm_mqtt_client_unsubscribe(World, topic, ghost.next_arg)
       IN Commit(Counted(r.w))

\* GSM_EVT_CONN_ACTIVE
EvtActive ==
    /\ net.tcp = "starting"
    /\ Commit(mqtt_connected_cb([World EXCEPT !.n.tcp = "active"]))

\* GSM_EVT_CONN_ERROR
EvtError ==
    /\ net.tcp = "starting"
    /\ Commit(mqtt_conn_error([World EXCEPT !.n.tcp = "idle", !.n.close_req = FALSE]))

\* GSM_EVT_CONN_RECV: the block d arrives; `rest` is what the broker has yet
\* to deliver of the frame d ends in, and comes next
EvtRecv(d, rest, junk) ==
    /\ net.tcp = "active"
    /\ net.rx_rest \in {<<>>, d}
    /\ Commit(mqtt_data_recv_cb([World EXCEPT !.n.rx_rest = rest], d, junk))

\* GSM_EVT_CONN_SEND: the transport took sent_len bytes of the block lent to it
EvtSend(sent_len, successful, cres) ==
    /\ net.tcp = "active"
    /\ net.inflight > 0
    /\ sent_len <= net.inflight
    /\ Commit(mqtt_data_sent_cb(
                [World EXCEPT !.n.inflight = 0,
                              !.g.acked = IF successful THEN @ + sent_len ELSE @],
                sent_len, successful, cres))

\* GSM_EVT_CONN_CLOSE
EvtClose ==
    /\ net.tcp = "active"
    /\ LET w == mqtt_closed_cb(World)
       IN Commit([w EXCEPT !.n = [tcp |-> "idle", close_req |-> FALSE, inflight |-> 0, rx_rest |-> <<>>],
                           !.g.stream = 0, !.g.acked = 0])

\* GSM_EVT_CONN_POLL
EvtPoll ==
    /\ net.tcp = "active"
    /\ client.poll_time < MaxPolls
    /\ Commit(mqtt_poll_cb(World))

\* the session, with whole sends: every API function, every transport event
\* but POLL, the broker's frames of RxBlocks
Next ==
    \/ \E attached \in BOOLEAN, startres \in Results : Connect(Info0, attached, startres)
    \/ \E cres \in Results : Disconnect(cres)
    \/ \E topic \in Topics, qos \in 0..1 : Publish(topic, <<>>, qos, 0, MaxCalls)
    \/ \E topic \in Topics : Subscribe(topic, 1)
    \/ \E topic \in Topics : Unsubscribe(topic)
    \/ EvtActive
    \/ EvtError
    \/ \E b \in RxBlocks : EvtRecv(b.d, b.rest, 0)
    \/ EvtSend(net.inflight, TRUE, "OK")
    \/ EvtClose

Spec == Init /\ [][Next]_vars

\* the transmit path: QoS-0 publishes against SEND completions that take the
\* whole block or the first half of it, or fail
NextTx ==
    \/ Connect(Info0, TRUE, "OK")
    \/ Publish(<<97>>, <<>>, 0, 0, MaxCallsTx)
    \/ EvtActive
    \/ EvtRecv(Connack(0), <<>>, 0)
    \/ \E sent_len \in {net.inflight, (net.inflight + 1) \div 2} : EvtSend(sent_len, TRUE, "OK")
    \/ \E cres \in Results : EvtSend(0, FALSE, cres)
    \/ EvtClose

SpecTx == Init /\ [][NextTx]_vars

\* SEND completions and the counters: the transmit path again, with the
\* call budget of the session
NextSent ==
    \/ Connect(Info0, TRUE, "OK")
    \/ Publish(<<97>>, <<>>, 0, 0, MaxCalls)
    \/ EvtActive
    \/ EvtRecv(Connack(0), <<>>, 0)
    \/ \E sent_len \in {net.inflight, (net.inflight + 1) \div 2} : EvtSend(sent_len, TRUE, "OK")
    \/ \E sent_len \in {0, net.inflight \div 2}, cres \in Results : EvtSend(sent_len, FALSE, cres)
    \/ EvtClose

SpecSent == Init /\ [][NextSent]_vars

\* what the broker sends in the acknowledgement specification
AckFrames == {Connack(0), Puback(1), Puback(2), Pubcomp(1), Pubcomp(2)}

\* the acknowledgement path: QoS-1 and QoS-2 publishes against the broker's
\* PUBACK and PUBCOMP, which come in any order
NextAck ==
    \/ Connect(Info0, TRUE, "OK")
    \/ \E qos \in 1..2 : Publish(<<97>>, <<>>, qos, 0, MaxCalls)
    \/ EvtActive
    \/ \E f \in AckFrames : EvtRecv(f, <<>>, 0)
    \/ EvtSend(net.inflight, TRUE, "OK")
    \/ EvtClose

SpecAck == Init /\ [][NextAck]_vars

\* what the broker sends in the inbound specification: acknowledgements, a
\* refusing SUBACK, a PINGRESP
RxFrames ==
    {Connack(0), Puback(1), Pubcomp(1), Suback(1, 0), Suback(2, 128), Unsuback(2), Pingresp}

\* the inbound path: publishes, subscribes and unsubscribes against the
\* frames of RxFrames
NextRx ==
    \/ Connect(Info0, TRUE, "OK")
    \/ Disconnect("OK")
    \/ Publish(<<97>>, <<>>, 1, 0, MaxCalls)
    \/ Subscribe(<<97>>, 1)
    \/ Unsubscribe(<<97>>)
    \/ EvtActive
    \/ \E f \in RxFrames : EvtRecv(f, <<>>, 0)
    \/ EvtSend(net.inflight, TRUE, "OK")
    \/ EvtClose

SpecRx == Init /\ [][NextRx]_vars

\* GSM_EVT_CONN_RECV of a whole frame; a frame the client answers with a
\* packet of its own counts against the call budget
EvtRecvAnswered(f) ==
    /\ net.tcp = "active"
    /\ net.rx_rest = <<>>
    /\ LET w == mqtt_data_recv_cb(World, f, 0)
       IN IF w.g.stream = ghost.stream THEN Commit(w)
          ELSE ghost.calls < MaxCalls /\ Commit([w EXCEPT !.g.calls = @ + 1])

\* what the broker sends in the QoS-2 specification: the acknowledgements
\* of outbound publishes, inbound publishes of every QoS, a PUBREL
Qos2Frames ==
    {Connack(0), Pubrec(1), Pubcomp(1), Pubrec(2),
     PublishIn(0, 0), PublishIn(1, 7), PublishIn(2, 7), Pubrel(7)}

\* the QoS-2 handshakes, outbound and inbound
NextQos2 ==
    \/ Connect(Info0, TRUE, "OK")
    \/ Publish(<<97>>, <<>>, 2, 0, MaxCalls)
    \/ EvtActive
    \/ \E f \in Qos2Frames : EvtRecvAnswered(f)
    \/ EvtSend(net.inflight, TRUE, "OK")
    \/ EvtClose

SpecQos2 == Init /\ [][NextQos2]_vars

\* the keep-alive path: POLL events against a client connected with and
\* without keep-alive, the broker's CONNACK and PINGRESP, whole sends
NextPoll ==
    \/ \E info \in {Info0, Info1} : Connect(info, TRUE, "OK")
    \/ Disconnect("OK")
    \/ EvtActive
    \/ \E f \in {Connack(0), Pingresp} : EvtRecv(f, <<>>, 0)
    \/ EvtSend(net.inflight, TRUE, "OK")
    \/ EvtPoll
    \/ EvtClose

SpecPoll == Init /\ [][NextPoll]_vars

\* the largest payload the uint16_t payload_len of publish can announce
BigPayload == [i \in 1..(U16 - 1) |-> 0]

\* the encoders against the tx buffer: publishes with an empty payload and
\* with the largest one, a subscribe, the CONNECT of the ACTIVE event
NextEnc ==
    \/ Connect(Info0, TRUE, "OK")
    \/ \E payload \in {<<>>, BigPayload}, qos \in 0..1 :
            Publish(<<97>>, payload, qos, 0, MaxCalls)
    \/ Subscribe(<<97>>, 1)
    \/ EvtActive
    \/ EvtRecv(Connack(0), <<>>, 0)
    \/ EvtSend(net.inflight, TRUE, "OK")
    \/ EvtClose

SpecEnc == Init /\ [][NextEnc]_vars

\* a QoS-1 publish on a quiet connection, the SEND completion of its packet
\* and the broker's PUBACK for it: three handlers in a row. The bytes of the
\* packet, written and acknowledged within the run, stay out of the ghost
\* count of the stream.
PublishAckedOnce(w) ==
    LET r == gsm_mqtt_client_publish(w, <<97>>, <<>>, 1, 0, w.g.next_arg)
        w1 == mqtt_data_sent_cb([r.w EXCEPT !.n.inflight = 0],
                                r.w.n.inflight, TRUE, "OK")
        w2 == mqtt_data_recv_cb(w1, Puback(r.w.c.last_packet_id), 0)
    IN [w2 EXCEPT !.g.stream = w.g.stream]

\* one answered publish, taken as one step
PublishAcked ==
    /\ client.conn_state = "CONNECTED" /\ net.tcp = "active" /\ ~net.close_req
    /\ net.inflight = 0 /\ net.rx_rest = <<>>
    /\ client.parser_state = MQTT_PARSER_STATE_INIT
    /\ Cardinality(InUse(client)) = 1
    /\ gsm_buff_get_full(client.tx_buff) = 0
    /\ ghost.next_arg < MaxArgs
    /\ Commit(PublishAckedOnce(World))

\* the packet-id path: one QoS-1 publish the broker never answers, a long
\* run of publishes it answers at once, and one more publish
NextId ==
    \/ Connect(Info0, TRUE, "OK")
    \/ Publish(<<97>>, <<>>, 1, 0, MaxCallsId)
    \/ EvtActive
    \/ EvtRecv(Connack(0), <<>>, 0)
    \/ EvtSend(net.inflight, TRUE, "OK")
    \/ PublishAcked

SpecId == Init /\ [][NextId]_vars

---------------------------------------------------------------------------
(* Properties *)

\* the four states of the design: the C file's CONN_CONNECTING (transport
\* being opened) and CONNECTING (CONNECT written, CONNACK awaited) are its
\* CONNECTING
DesignState(c) ==
    CASE c.conn_state = "CONN_DISCONNECTED" -> "DISCONNECTED"
      [] c.conn_state \in {"CONN_CONNECTING", "CONNECTING"} -> "CONNECTING"
      [] c.conn_state = "CONNECTED" -> "CONNECTED"
      [] c.conn_state = "CONN_DISCONNECTING" -> "DISCONNECTING"

\* this step is a RECV event whose block ends a CONNACK with that return code
RecvEndsConnack(code) ==
    \/ EvtRecv(Connack(code), <<>>, 0)
    \/ code = 0 /\ net.rx_rest = <<0, 0>> /\ EvtRecv(<<0, 0>>, <<>>, 0)

\* slots of the requests waiting for their completion
Pending(c) == {i \in Slots : "PENDING" \in c.requests[i].status}

\* positions of the completion events in a sequence of events
Completions(es) ==
    {k \in 1..Len(es) : es[k].type \in {"PUBLISH", "SUBSCRIBE", "UNSUBSCRIBE"}}

\* position of the completion event that carries arg
PosOf(es, arg) == CHOOSE k \in Completions(es) : es[k].arg = arg

\* the world after the CLOSE event is handled in this state
Closed == mqtt_closed_cb(World)

\* C1: the state becomes CONNECTED only by a RECV event that ends a CONNACK
\* with return code 0 while the client is in CONNECTING, and that step
\* delivers CONNECT{0}; a CONNACK with a nonzero code received in CONNECTING
\* leaves the state as it is and delivers CONNECT{status = the code} and
\* nothing else; a disconnect() that requests the close and a CLOSE event
\* leave is_connected() false.
C1_ConnectedOnlyByAcceptedConnack ==
    [][/\ (gsm_mqtt_client_is_connected(client') /\ ~gsm_mqtt_client_is_connected(client))
            => /\ DesignState(client) = "CONNECTING"
               /\ RecvEndsConnack(0)
               /\ Len(evts') = 1 /\ evts'[1].type = "CONNECT" /\ evts'[1].status = 0
       /\ \A code \in {5} :
            (DesignState(client) = "CONNECTING" /\ RecvEndsConnack(code))
            => /\ client'.conn_state = client.conn_state
               /\ Len(evts') = 1 /\ evts'[1].type = "CONNECT" /\ evts'[1].status = code
       /\ (EvtClose \/ (gsm_mqtt_client_is_connected(client) /\ Disconnect("OK")))
            => ~gsm_mqtt_client_is_connected(client')
      ]_vars

\* a CONNACK with return code 0 has just connected the client
C1_Witness ==
    /\ gsm_mqtt_client_is_connected(client)
    /\ Len(evts) = 1 /\ evts[1].type = "CONNECT" /\ evts[1].status = 0

\* C2: connect() called in DISCONNECTED with the network attached starts the
\* transport and, when the transport takes the request, sets the state to
\* CONNECTING and returns OK; called in another state, or with the network
\* not attached, it returns ERR and changes neither the client nor the
\* transport.
C2_ConnectOnlyWhenDisconnectedAndAttached ==
    \A attached \in BOOLEAN, startres \in Results :
        LET r == gsm_mqtt_client_connect(World, Info0, attached, startres)
        IN IF attached /\ DesignState(client) = "DISCONNECTED"
           THEN IF startres = "OK"
                THEN /\ r.res = "OK"
                     /\ r.w.n.tcp = "starting"
                     /\ DesignState(r.w.c) = "CONNECTING"
                ELSE /\ r.res = startres
                     /\ r.w.c.conn_state = client.conn_state /\ r.w.n = net
           ELSE r.res = "ERR" /\ r.w.c = client /\ r.w.n = net

\* connect() has started the transport for a second session, and a further
\* connect() is refused
C2_Witness ==
    /\ client.conn_state = "CONN_CONNECTING"
    /\ net.tcp = "starting"
    /\ client.last_packet_id > 0
    /\ gsm_mqtt_client_connect(World, Info0, TRUE, "OK").res = "ERR"

\* the API call that returned r changed neither the client nor the transport
Refused(r) == r.w.c = client /\ r.w.n = net

\* C3 as stated: while the state is not CONNECTED publish() returns CLOSED,
\* subscribe() and unsubscribe() return ERR, and the call changes neither the
\* tx buffer nor the request table nor what the transport holds.
C3_RefusedWithClosed ==
    client.conn_state # "CONNECTED" =>
        \A topic \in Topics :
            /\ \A qos \in 0..2 :
                LET r == gsm_mqtt_client_publish(World, topic, <<>>, qos, 0, ghost.next_arg)
                IN r.res = "CLOSED" /\ Refused(r)
            /\ LET r == gsm_mqtt_client_subscribe(World, topic, 1, ghost.next_arg)
               IN r.res = "ERR" /\ Refused(r)
            /\ LET r == gsm_mqtt_client_unsubscribe(World, topic, ghost.next_arg)
               IN r.res = "ERR" /\ Refused(r)

\* C3, amended: while the state is not CONNECTED publish() returns CLOSED for
\* a topic that is not empty and ERR for an empty one, subscribe() and
\* unsubscribe() return ERR, and the call changes neither the tx buffer nor
\* the request table nor what the transport holds.
C3_RefusedWhenNotConnected ==
    client.conn_state # "CONNECTED" =>
        \A topic \in Topics :
            /\ \A qos \in 0..2 :
                LET r == gsm_mqtt_client_publish(World, topic, <<>>, qos, 0, ghost.next_arg)
                IN r.res = (IF topic = <<>> THEN "ERR" ELSE "CLOSED") /\ Refused(r)
            /\ LET r == gsm_mqtt_client_subscribe(World, topic, 1, ghost.next_arg)
               IN r.res = "ERR" /\ Refused(r)
            /\ LET r == gsm_mqtt_client_unsubscribe(World, topic, ghost.next_arg)
               IN r.res = "ERR" /\ Refused(r)

\* the client is closing a session with requests pending, bytes in the tx
\* buffer and room for more, and publish() is refused
C3_Witness ==
    /\ client.conn_state = "CONN_DISCONNECTING"
    /\ InUse(client) # {} /\ Cardinality(InUse(client)) < MaxRequests
    /\ gsm_buff_get_full(client.tx_buff) > 0
    /\ gsm_buff_get_free(client.tx_buff) >= 7
    /\ gsm_mqtt_client_publish(World, <<97>>, <<>>, 1, 0, ghost.next_arg).res = "CLOSED"

\* C4: after a CLOSE event was handled no slot of the request table is in
\* use, and every request that was pending before it got exactly one
\* completion event, of the kind of the request, with its arg and result
\* ERR; there is no other completion event.
C4_CloseFailsEveryPendingOnce ==
    net.tcp = "active" =>
        LET w == Closed IN
        /\ InUse(w.c) = {}
        /\ \A i \in Pending(client) :
             LET ks == {k \in Completions(w.e) : w.e[k].arg = client.requests[i].arg}
             IN /\ Cardinality(ks) = 1
                /\ \A k \in ks : w.e[k].type = ghost.kind[i] /\ w.e[k].res = "ERR"
        /\ Cardinality(Completions(w.e)) = Cardinality(Pending(client))

\* a close has just failed a pending publish and a pending unsubscribe
C4_Witness ==
    /\ InUse(client) = {}
    /\ Len(evts) = 3
    /\ evts[1].type = "DISCONNECT"
    /\ {evts[2].type, evts[3].type} = {"PUBLISH", "UNSUBSCRIBE"}
    /\ evts[2].res = "ERR" /\ evts[3].res = "ERR"

\* C5: a CLOSE event, in whatever state it arrives, leaves the state
\* DISCONNECTED and delivers exactly one DISCONNECT event, whose is_accepted
\* is true iff the state before the event was CONNECTED or DISCONNECTING.
C5_CloseDisconnects ==
    net.tcp = "active" =>
        LET w == Closed IN
        /\ DesignState(w.c) = "DISCONNECTED"
        /\ Cardinality({k \in 1..Len(w.e) : w.e[k].type = "DISCONNECT"}) = 1
        /\ \A k \in 1..Len(w.e) : w.e[k].type = "DISCONNECT" =>
             (w.e[k].is_accepted <=> DesignState(client) \in {"CONNECTED", "DISCONNECTING"})

\* a connection was closed while the CONNACK was awaited: DISCONNECT, not
\* accepted
C5_Witness ==
    /\ client.conn_state = "CONN_DISCONNECTED"
    /\ Len(evts) = 1 /\ evts[1].type = "DISCONNECT" /\ ~evts[1].is_accepted

\* C6 as stated: on CLOSE the failure events of the pending requests come
\* before the DISCONNECT event (the DISCONNECT event is the last event of the
\* close).
C6_FailuresBeforeDisconnect ==
    net.tcp = "active" =>
        LET w == Closed IN
        \A k \in 1..Len(w.e) : w.e[k].type = "DISCONNECT" => k = Len(w.e)

\* C6, amended: on CLOSE the DISCONNECT event comes first, delivered with the
\* state already DISCONNECTED and the pending requests still in the table;
\* one failure event per pending request follows, each delivered after its
\* slot was freed, and the table is empty when the last one is delivered
\* (two pending publishes and a pending subscribe yield DISCONNECT, then
\* PUBLISH{ERR}, PUBLISH{ERR}, SUBSCRIBE{ERR}).
C6_DisconnectBeforeFailures ==
    net.tcp = "active" =>
        LET w == Closed IN
        /\ Len(w.e) = 1 + Cardinality(Pending(client))
        /\ w.e[1].type = "DISCONNECT"
        /\ w.e[1].in_use = Cardinality(InUse(client))
        /\ \A k \in 2..Len(w.e) :
             /\ k \in Completions(w.e) /\ w.e[k].res = "ERR"
             /\ w.e[k].in_use = Cardinality(InUse(client)) - (k - 1)
        /\ \A k \in 1..Len(w.e) : w.e[k].conn_state = "CONN_DISCONNECTED"
        /\ InUse(w.c) = {}

\* a close has delivered DISCONNECT{accepted}, seen with three requests in
\* the table, and then PUBLISH{ERR}, PUBLISH{ERR} and SUBSCRIBE{ERR}
C6_Witness ==
    /\ Len(evts) = 4
    /\ evts[1].type = "DISCONNECT" /\ evts[1].is_accepted /\ evts[1].in_use = 3
    /\ evts[2].type = "PUBLISH" /\ evts[2].res = "ERR"
    /\ evts[3].type = "PUBLISH" /\ evts[3].res = "ERR"
    /\ evts[4].type = "SUBSCRIBE" /\ evts[4].res = "ERR" /\ evts[4].in_use = 0
    /\ InUse(client) = {}

\* C7: on CLOSE the state is DISCONNECTED when the DISCONNECT event is
\* delivered, the first event; the transport handle is still there at that
\* event and gone at every failure event, which follow, one per pending
\* request; at all these events is_sending, sent_total, written_total, the
\* tx buffer and the parser state are what they were before the close, and
\* when the handler returns the table is zeroed and they are reset.
C7_CloseFanoutOrder ==
    net.tcp = "active" =>
        LET w == Closed IN
        /\ Len(w.e) = 1 + Cardinality(Pending(client))
        /\ w.e[1].type = "DISCONNECT"
        /\ w.e[1].conn_state = "CONN_DISCONNECTED"
        /\ w.e[1].conn = client.conn /\ client.conn # "NULL"
        /\ \A k \in 2..Len(w.e) :
             k \in Completions(w.e) /\ w.e[k].conn = "NULL"
        /\ \A k \in 1..Len(w.e) :
             /\ w.e[k].is_sending = client.is_sending
             /\ w.e[k].sent_total = client.sent_total
             /\ w.e[k].written_total = client.written_total
             /\ w.e[k].tx_full = gsm_buff_get_full(client.tx_buff)
             /\ w.e[k].parser_state = client.parser_state
        /\ w.c.conn = "NULL"
        /\ \A i \in Slots : w.c.requests[i] = ZeroRequest
        /\ w.c.is_sending = 0 /\ w.c.sent_total = 0 /\ w.c.written_total = 0
        /\ w.c.tx_buff = [r |-> 0, w |-> 0, data |-> <<>>]
        /\ w.c.parser_state = MQTT_PARSER_STATE_INIT

\* a close has come in the middle of a send and of an inbound frame, with a
\* request pending: the failure event saw the counters, the tx buffer and
\* the parser not yet reset, and now they are
C7_Witness ==
    /\ Len(evts) >= 2
    /\ evts[1].type = "DISCONNECT" /\ evts[1].conn # "NULL"
    /\ evts[2].conn = "NULL"
    /\ evts[2].is_sending = 1 /\ evts[2].sent_total > 0 /\ evts[2].written_total > 0
    /\ evts[2].tx_full > 0 /\ evts[2].parser_state # MQTT_PARSER_STATE_INIT
    /\ client.written_total = 0 /\ client.parser_state = MQTT_PARSER_STATE_INIT
    /\ client.is_sending = 0 /\ client.sent_total = 0

\* C8 as stated: on CLOSE the failure events of the pending requests that
\* have a packet id come in ascending order of packet id.
C8_FailuresInPacketIdOrder ==
    net.tcp = "active" =>
        LET w == Closed IN
        \A i, j \in Pending(client) :
            (/\ client.requests[i].packet_id # 0
             /\ client.requests[i].packet_id < client.requests[j].packet_id)
            => PosOf(w.e, client.requests[i].arg) < PosOf(w.e, client.requests[j].arg)

\* C8, amended: on CLOSE the failure events of the pending requests come in
\* ascending order of the slots the requests occupy in the request table.
C8_FailuresInSlotOrder ==
    net.tcp = "active" =>
        LET w == Closed IN
        \A i, j \in Pending(client) :
            i < j => PosOf(w.e, client.requests[i].arg) < PosOf(w.e, client.requests[j].arg)

\* a close has failed two requests that both had a packet id, the one made
\* later (in a slot that had been freed) before the one made earlier
C8_Witness ==
    /\ Len(evts) = 3
    /\ evts[1].type = "DISCONNECT"
    /\ evts[2].type = "SUBSCRIBE" /\ evts[3].type = "UNSUBSCRIBE"
    /\ evts[2].res = "ERR" /\ evts[3].res = "ERR"
    /\ evts[2].arg > evts[3].arg

\* C9: a QoS-0 publish is reported done (PUBLISH{arg, OK}) only when the
\* SEND completions so far have acknowledged every byte up to the end of its
\* packet.
C9_DoneOnlyWhenAcked ==
    \A k \in 1..Len(evts) :
        (evts[k].type = "PUBLISH" /\ evts[k].res = "OK") => evts[k].g_end <= evts[k].acked

\* C10: on an open connection with nothing left to send (no send
\* outstanding, the tx buffer empty), where only new traffic of the
\* application could bring another SEND completion, no QoS-0 publish whose
\* bytes were all acknowledged still waits for its PUBLISH{arg, OK}.
C10_AckedPublishIsDone ==
    (/\ client.conn_state = "CONNECTED"
     /\ net.tcp = "active" /\ ~net.close_req
     /\ net.inflight = 0 /\ client.is_sending = 0
     /\ gsm_buff_get_full(client.tx_buff) = 0)
    => \A i \in Pending(client) :
            client.requests[i].packet_id = 0 => ghost.acked < ghost.end[i]

\* C11: a PUBACK or PUBCOMP that carries the packet id of a pending QoS>0
\* publish, whichever of the pending requests it is, delivers exactly one
\* event, PUBLISH{arg of that request, OK}, frees the slot of that request
\* and leaves every other slot of the table as it was.
C11_AckCompletesItsRequest ==
    (net.tcp = "active" /\ net.rx_rest = <<>>
        /\ client.parser_state = MQTT_PARSER_STATE_INIT) =>
        \A i \in Pending(client) :
            (client.requests[i].packet_id # 0 /\ ghost.kind[i] = "PUBLISH") =>
                \A ack \in {Puback(client.requests[i].packet_id),
                             Pubcomp(client.requests[i].packet_id)} :
                    LET w == mqtt_data_recv_cb(World, ack, 0)
                    IN /\ Len(w.e) = 1
                       /\ w.e[1].type = "PUBLISH"
                       /\ w.e[1].arg = client.requests[i].arg
                       /\ w.e[1].res = "OK"
                       /\ "IN_USE" \notin w.c.requests[i].status
                       /\ \A j \in Slots \ {i} : w.c.requests[j] = client.requests[j]

\* the acknowledgement of the second of two pending publishes has come
\* first: its PUBLISH{OK} is delivered and the first publish still waits
C11_Witness ==
    /\ Len(evts) = 1 /\ evts[1].type = "PUBLISH" /\ evts[1].res = "OK"
    /\ \E j \in Pending(client) :
        /\ client.requests[j].packet_id # 0
        /\ client.requests[j].arg < evts[1].arg
    /\ \A i \in Slots : client.requests[i].arg = evts[1].arg
                            => "IN_USE" \notin client.requests[i].status

\* C12: no two pending requests that use a response id (packet id not 0)
\* carry the same packet id.
C12_PendingIdsUnique ==
    \A i, j \in Pending(client) :
        (i # j /\ client.requests[i].packet_id # 0)
            => client.requests[i].packet_id # client.requests[j].packet_id

\* C13: the generator never returns 0: it returns the last id plus one, and
\* 1 after 65535; an accepted QoS>0 publish, subscribe or unsubscribe makes
\* that id the last id and the id of its request, and an accepted QoS-0
\* publish leaves the last id alone and gives its request the id 0.
C13_GeneratorSkipsZero ==
    LET last == client.last_packet_id
        n == create_packet_id(client)
        slot == request_create_slot(client)
        Takes(r, id, newlast) ==
            r.res = "OK" => /\ slot # 0
                            /\ r.w.c.requests[slot].packet_id = id
                            /\ r.w.c.last_packet_id = newlast
    IN /\ n \in 1..(U16 - 1)
       /\ n = (IF last = U16 - 1 THEN 1 ELSE last + 1)
       /\ \A qos \in 1..2 :
            Takes(gsm_mqtt_client_publish(World, <<97>>, <<>>, qos, 0, ghost.next_arg), n, n)
       /\ Takes(gsm_mqtt_client_subscribe(World, <<97>>, 1, ghost.next_arg), n, n)
       /\ Takes(gsm_mqtt_client_unsubscribe(World, <<97>>, ghost.next_arg), n, n)
       /\ Takes(gsm_mqtt_client_publish(World, <<97>>, <<>>, 0, 0, ghost.next_arg), 0, last)

\* the 16-bit counter has come round: the request made after the one with
\* id 65535 holds id 1
C13_Witness ==
    /\ client.last_packet_id = 1
    /\ \E i \in InUse(client) :
        client.requests[i].packet_id = 1 /\ client.requests[i].arg >= U16

\* the world a refused call leaves: nothing written to the tx buffer, no
\* request slot touched, nothing handed to the transport, no event delivered
Untouched(w) ==
    /\ w.c.tx_buff = client.tx_buff
    /\ w.c.written_total = client.written_total
    /\ w.c.requests = client.requests
    /\ w.c.is_sending = client.is_sending
    /\ w.n = net
    /\ w.g.stream = ghost.stream
    /\ w.e = <<>>

\* C14: never more than MAX_REQUESTS requests are in use, and with every
\* slot in use a publish on a connected client answers out-of-memory, a
\* subscribe or unsubscribe answers ERR, and none of them writes a byte,
\* touches a request slot or hands anything to the transport.
C14_FullTableRefuses ==
    /\ Cardinality(InUse(client)) <= MaxRequests
    /\ (InUse(client) = Slots /\ client.conn_state = "CONNECTED") =>
        /\ \A qos \in 0..2 : \A payload \in {<<>>, <<1>>} :
              LET r == gsm_mqtt_client_publish(World, <<97>>, payload, qos, 0, ghost.next_arg)
              IN r.res = "ERRMEM" /\ Untouched(r.w)
        /\ LET r == gsm_mqtt_client_subscribe(World, <<97>>, 1, ghost.next_arg)
           IN r.res = "ERR" /\ Untouched(r.w)
        /\ LET r == gsm_mqtt_client_unsubscribe(World, <<97>>, ghost.next_arg)
           IN r.res = "ERR" /\ Untouched(r.w)

\* every slot is in use on a connected client whose tx buffer has room for
\* one more packet
C14_Witness ==
    /\ InUse(client) = Slots
    /\ client.conn_state = "CONNECTED"
    /\ output_check_enough_memory(client, 5) # 0
    /\ gsm_conn_send_ok(net)

\* number of raw bytes of an MQTT packet with that remaining length
PacketLen(rem_len) == rem_len + 1 + Len(rem_len_bytes(rem_len))

\* the call or event that took the world to w appended either nothing or one
\* whole packet of rem_len remaining bytes, and nothing when that packet did
\* not fit into the free space of the tx buffer
WholeOrNothing(w, rem_len) ==
    LET grown == w.g.stream - ghost.stream
    IN /\ grown \in {0, PacketLen(rem_len)}
       /\ PacketLen(rem_len) > gsm_buff_get_free(client.tx_buff) =>
             grown = 0 /\ w.c.tx_buff = client.tx_buff

\* C15: every encode appends a whole packet or nothing, and nothing when the
\* tx buffer has less than rem_len + 1 + (remaining-length bytes) free; a
\* publish that does not fit answers out-of-memory, a subscribe or
\* unsubscribe that does not fit answers ERR.
C15_EncodesAreAtomic ==
    /\ \A payload \in {<<>>, BigPayload} : \A qos \in 0..1 :
          LET rem_len == 2 + 1 + Len(payload) + (IF qos > 0 THEN 2 ELSE 0)
              r == gsm_mqtt_client_publish(World, <<97>>, payload, qos, 0, ghost.next_arg)
          IN /\ WholeOrNothing(r.w, rem_len)
             /\ (client.conn_state = "CONNECTED"
                    /\ PacketLen(rem_len) > gsm_buff_get_free(client.tx_buff))
                  => r.res = "ERRMEM"
    /\ LET r == gsm_mqtt_client_subscribe(World, <<97>>, 1, ghost.next_arg)
       IN /\ WholeOrNothing(r.w, 6)
          /\ PacketLen(6) > gsm_buff_get_free(client.tx_buff) => r.res = "ERR"
    /\ LET r == gsm_mqtt_client_unsubscribe(World, <<97>>, ghost.next_arg)
       IN /\ WholeOrNothing(r.w, 5)
          /\ PacketLen(5) > gsm_buff_get_free(client.tx_buff) => r.res = "ERR"
    /\ net.tcp = "starting" =>
          WholeOrNothing(mqtt_connected_cb([World EXCEPT !.n.tcp = "active"]),
                         12 + Len(client.info.id))
    /\ (net.tcp = "active" /\ net.rx_rest = <<>>
            /\ client.parser_state = MQTT_PARSER_STATE_INIT) =>
          WholeOrNothing(mqtt_data_recv_cb(World, PublishIn(1, 1), 0), 2)

\* C16: sent_total never exceeds written_total; written_total does not
\* decrease from one step to the next while the connection stays open; and
\* the step that handles the transport CLOSE leaves both counters at zero.
C16_CountersOrdered ==
    /\ [](client.sent_total <= client.written_total)
    /\ [][(net.tcp = "active" /\ net'.tcp = "active")
            => client'.written_total >= client.written_total]_vars
    /\ [][(net.tcp = "active" /\ net'.tcp = "idle")
            => client'.sent_total = 0 /\ client'.written_total = 0]_vars

\* the transport has confirmed a part of what was handed to it, and a
\* request still waits
C16_Witness ==
    /\ client.conn_state = "CONNECTED"
    /\ 0 < client.sent_total
    /\ client.sent_total < client.written_total
    /\ Pending(client) # {}

\* C17: a SEND completion that reports a failed write, handled in a
\* non-terminal state, asks the transport to close, leaves the client
\* DISCONNECTING, and delivers no PUBLISH{OK} for a QoS-0 publish.
C17_FailedWriteCloses ==
    (net.tcp = "active" /\ net.inflight > 0
        /\ client.conn_state \notin {"CONN_DISCONNECTED", "CONN_DISCONNECTING"}) =>
        \A sent_len \in {0, net.inflight \div 2}, cres \in Results :
            LET w == mqtt_data_sent_cb([World EXCEPT !.n.inflight = 0],
                                       sent_len, FALSE, cres)
            IN /\ cres = "OK" => w.n.close_req
               /\ w.c.conn_state = "CONN_DISCONNECTING"
               /\ w.e = <<>>

\* C18: disconnect() in a state other than DISCONNECTED and DISCONNECTING
\* asks the transport for a close; when the transport accepts the request
\* the state is DISCONNECTING and disconnect() returns OK, when it refuses
\* disconnect() returns the transport's answer and changes nothing.  In
\* DISCONNECTED and DISCONNECTING disconnect() returns ERR, asks for no
\* close and changes nothing.
C18_DisconnectClosesIfAccepted ==
    \A cres \in Results :
        LET r == gsm_mqtt_client_disconnect(World, cres)
        IN IF client.conn_state \in {"CONN_DISCONNECTED", "CONN_DISCONNECTING"}
           THEN r.res = "ERR" /\ r.w = World
           ELSE IF cres = "OK"
           THEN /\ r.res = "OK"
                /\ r.w.n.close_req
                /\ r.w.c = [client EXCEPT !.conn_state = "CONN_DISCONNECTING"]
           ELSE r.res = cres /\ r.w = World

\* C18 as stated: disconnect() in a non-terminal state always leaves the
\* state DISCONNECTING.
C18_DisconnectAlwaysCloses ==
    \A cres \in Results :
        client.conn_state \notin {"CONN_DISCONNECTED", "CONN_DISCONNECTING"} =>
            gsm_mqtt_client_disconnect(World, cres).w.c.conn_state = "CONN_DISCONNECTING"

\* disconnect() was called on a connected client with a request pending and
\* the transport accepted the close
C18_Witness ==
    /\ client.conn_state = "CONN_DISCONNECTING"
    /\ net.tcp = "active" /\ net.close_req
    /\ Pending(client) # {}

\* C19: a transport ERROR handled while the client waits for the transport
\* to connect sets the state to DISCONNECTED and delivers one event, a
\* CONNECT with status TCP_FAILED; a connect() made after it is accepted.
C19_ErrorWhileConnecting ==
    (net.tcp = "starting" /\ client.conn_state = "CONN_CONNECTING") =>
        LET w == mqtt_conn_error([World EXCEPT !.n.tcp = "idle", !.n.close_req = FALSE])
            r == gsm_mqtt_client_connect(w, Info0, TRUE, "OK")
        IN /\ w.c.conn_state = "CONN_DISCONNECTED"
           /\ Len(w.e) = 1
           /\ w.e[1].type = "CONNECT"
           /\ w.e[1].status = GSM_MQTT_CONN_STATUS_TCP_FAILED
           /\ w.e[1].conn_state = "CONN_DISCONNECTED"
           /\ r.res = "OK"
           /\ r.w.c.conn_state = "CONN_CONNECTING"

\* the ERROR event has been handled: CONNECT{TCP_FAILED} was delivered and
\* the client is DISCONNECTED
C19_Witness ==
    /\ Len(evts) = 1
    /\ evts[1].type = "CONNECT"
    /\ evts[1].status = GSM_MQTT_CONN_STATUS_TCP_FAILED
    /\ client.conn_state = "CONN_DISCONNECTED"
    /\ net.tcp = "idle"

\* the connection infos of the clean connect: client id "c", keep-alive 0
\* or 60 seconds
ConnectInfos == {Info0, [keep_alive |-> 60, id |-> <<99>>]}

\* the world after connect(info) and the ACTIVE event that answers it
Activated(info) ==
    LET r == gsm_mqtt_client_connect(World, info, TRUE, "OK")
    IN mqtt_connected_cb([r.w EXCEPT !.n.tcp = "active"])

\* C20: the ACTIVE event that answers a connect() puts one packet into the
\* empty tx buffer, the CONNECT 10 | 12 + len(id) | 00 04 "MQTT" 04 02 |
\* keep-alive | len(id) id, hands all of it to the transport and leaves the
\* client CONNECTING, not connected; and the client becomes CONNECTED only
\* from CONNECTING, in a step that delivers CONNECT with status 0.
C20_ConnectPacketOnActive ==
    /\ [](client.conn_state = "CONN_DISCONNECTED" /\ net.tcp = "idle" =>
            \A info \in ConnectInfos :
                LET w == Activated(info)
                    pkt == <<16, 12 + Len(info.id), 0, 4, 77, 81, 84, 84, 4, 2,
                             info.keep_alive \div 256, info.keep_alive % 256,
                             Len(info.id) \div 256, Len(info.id) % 256>> \o info.id
                IN /\ ghost.stream = 0
                   /\ w.c.tx_buff.data = pkt
                   /\ w.g.stream = Len(pkt)
                   /\ w.n.inflight = Len(pkt)
                   /\ w.c.is_sending = 1
                   /\ w.c.conn_state = "CONNECTING"
                   /\ ~gsm_mqtt_client_is_connected(w.c)
                   /\ w.e = <<>>)
    /\ [][(client.conn_state # "CONNECTED" /\ client'.conn_state = "CONNECTED") =>
            /\ client.conn_state = "CONNECTING"
            /\ \E k \in 1..Len(evts') :
                    evts'[k].type = "CONNECT" /\ evts'[k].status = 0]_vars

\* C20 with the CONNECT bytes as the clean-connect scenario lists them: the
\* remaining-length byte is 10 + len(id) (0C for the two-byte id "c1").
C20_ConnectBytesAsListed ==
    (client.conn_state = "CONN_DISCONNECTED" /\ net.tcp = "idle") =>
        \A info \in ConnectInfos :
            Activated(info).c.tx_buff.data =
                <<16, 10 + Len(info.id), 0, 4, 77, 81, 84, 84, 4, 2,
                  info.keep_alive \div 256, info.keep_alive % 256,
                  Len(info.id) \div 256, Len(info.id) % 256>> \o info.id

\* the CONNECT packet is with the transport, the client is CONNECTING and no
\* CONNACK has come yet
C20_Witness ==
    /\ client.conn_state = "CONNECTING"
    /\ net.tcp = "active"
    /\ net.inflight = 15
    /\ client.tx_buff.data[1] = 16
    /\ ghost.stream = 15

\* C21: while the state is DISCONNECTING no API call and no RECV, SEND or
\* POLL event appends a byte to the tx buffer.
C21_NoEncodeWhileDisconnecting ==
    (client.conn_state = "CONN_DISCONNECTING" /\ net.tcp = "active") =>
        /\ \A qos \in 0..2 :
              gsm_mqtt_client_publish(World, <<97>>, <<>>, qos, 0, ghost.next_arg).w.g.stream
                  = ghost.stream
        /\ gsm_mqtt_client_subscribe(World, <<97>>, 1, ghost.next_arg).w.g.stream = ghost.stream
        /\ gsm_mqtt_client_unsubscribe(World, <<97>>, ghost.next_arg).w.g.stream = ghost.stream
        /\ mqtt_poll_cb(World).g.stream = ghost.stream
        /\ net.inflight > 0 =>
              mqtt_data_sent_cb([World EXCEPT !.n.inflight = 0],
                                net.inflight, TRUE, "OK").g.stream = ghost.stream
        /\ (net.rx_rest = <<>> /\ client.parser_state = MQTT_PARSER_STATE_INIT) =>
              \A f \in {PublishIn(0, 0), PublishIn(1, 7), PublishIn(2, 7),
                         Pubrec(1), Pubrel(7), Puback(1), Suback(1, 0)} :
                  mqtt_data_recv_cb(World, f, 0).g.stream = ghost.stream

\* the request table is zeroed and the tx buffer is reset
Cleared(c) ==
    /\ c.requests = [i \in Slots |-> ZeroRequest]
    /\ c.tx_buff = gsm_buff_reset(c.tx_buff)

\* C22: in every state with conn_state DISCONNECTED no request slot is in
\* use and the tx buffer is empty, and each of the two handlers that enter
\* DISCONNECTED, transport CLOSE and transport ERROR, leaves the request
\* table zeroed and the tx buffer reset.
C22_DisconnectedIsCleared ==
    /\ client.conn_state = "CONN_DISCONNECTED" =>
          /\ InUse(client) = {}
          /\ gsm_buff_get_full(client.tx_buff) = 0
          /\ Cleared(client)
    /\ net.tcp = "active" =>
          LET w == mqtt_closed_cb(World)
          IN w.c.conn_state = "CONN_DISCONNECTED" /\ Cleared(w.c)
    /\ net.tcp = "starting" =>
          LET w == mqtt_conn_error([World EXCEPT !.n.tcp = "idle", !.n.close_req = FALSE])
          IN w.c.conn_state = "CONN_DISCONNECTED" /\ Cleared(w.c)

\* a CLOSE was handled with requests in the table and bytes in the tx
\* buffer, and the client is DISCONNECTED
C22_Witness ==
    /\ client.conn_state = "CONN_DISCONNECTED"
    /\ Len(evts) > 1
    /\ evts[1].type = "DISCONNECT"
    /\ evts[1].in_use > 0
    /\ evts[1].tx_full > 0

\* the frame f, handled in one RECV block with a PINGRESP behind it, was
\* ignored: the PINGRESP is parsed and reported and is the only event, the
\* connection state, request table, tx buffer and transport are the same,
\* the parser is back in INIT
Ignored(f) ==
    LET w == mqtt_data_recv_cb(World, f \o Pingresp, 0)
    IN /\ Len(w.e) = 1 /\ w.e[1].type = "KEEP_ALIVE"
       /\ w.c.conn_state = client.conn_state
       /\ w.c.requests = client.requests
       /\ w.c.tx_buff = client.tx_buff
       /\ w.n = net
       /\ w.c.parser_state = MQTT_PARSER_STATE_INIT

\* frames whose packet-type nibble is 0 or 15
BadTypeFrames == {<<0, 0>>, <<2, 2, 0, 1>>, <<240, 0>>, <<240, 2, 0, 1>>}

\* C23: a CONNACK in a state other than CONNECTING, a PUBACK, PUBCOMP, SUBACK
\* or UNSUBACK whose packet id no pending request has, and a frame of packet
\* type 0 or 15 are ignored: no event, no change of the connection state or
\* of the request table, no close, and the frames after them are parsed.
C23_ViolationsIgnored ==
    (net.tcp = "active" /\ net.rx_rest = <<>>
        /\ client.parser_state = MQTT_PARSER_STATE_INIT) =>
        /\ client.conn_state # "CONNECTING" =>
              \A code \in {0, 5} : Ignored(Connack(code))
        /\ \A id \in {1, MaxRequests + 1} :
              (\A i \in Pending(client) : client.requests[i].packet_id # id) =>
                  \A f \in {Puback(id), Pubcomp(id), Suback(id, 0), Unsuback(id)} :
                      Ignored(f)
        /\ \A f \in BadTypeFrames : Ignored(f)

\* a PUBACK came on a connected client that never made a request, and
\* nothing was reported
C23_Witness ==
    /\ client.conn_state = "CONNECTED"
    /\ ghost.next_arg = 1
    /\ client.msg_hdr_byte = 64
    /\ client.parser_state = MQTT_PARSER_STATE_INIT
    /\ evts = <<>>

\* the handler that took the world to w appended exactly the packet pkt to
\* the tx buffer
Appended(w, pkt) ==
    /\ w.g.stream = ghost.stream + Len(pkt)
    /\ Len(w.c.tx_buff.data) >= Len(pkt)
    /\ SubSeq(w.c.tx_buff.data, Len(w.c.tx_buff.data) - Len(pkt) + 1,
              Len(w.c.tx_buff.data)) = pkt

\* C24: for a pending QoS-2 publish, a PUBREC with its packet id makes the
\* client encode the PUBREL with that id (62 02 id) and leaves the request
\* pending, with no event; the PUBCOMP with that id delivers PUBLISH{arg, OK}
\* and frees the slot.
C24_PubrecThenPubrel ==
    (net.tcp = "active" /\ net.rx_rest = <<>>
        /\ client.parser_state = MQTT_PARSER_STATE_INIT) =>
        \A i \in Pending(client) :
            (ghost.kind[i] = "PUBLISH" /\ client.requests[i].packet_id # 0) =>
                LET id == client.requests[i].packet_id
                    w == mqtt_data_recv_cb(World, Pubrec(id), 0)
                    w2 == mqtt_data_recv_cb(World, Pubcomp(id), 0)
                IN /\ Appended(w, Pubrel(id))
                   /\ w.e = <<>>
                   /\ w.c.requests = client.requests
                   /\ Len(w2.e) = 1
                   /\ w2.e[1].type = "PUBLISH"
                   /\ w2.e[1].arg = client.requests[i].arg
                   /\ w2.e[1].res = "OK"
                   /\ "IN_USE" \notin w2.c.requests[i].status

\* the handler delivered exactly one event, a PUBLISH_RECV of that QoS
OnePublishRecv(w, qos) ==
    /\ Len(w.e) = 1
    /\ w.e[1].type = "PUBLISH_RECV"
    /\ w.e[1].recv[4] = qos

\* C25: an inbound PUBLISH is reported by exactly one PUBLISH_RECV event; for
\* QoS 1 the client encodes PUBACK (40 02 id), for QoS 2 PUBREC (50 02 id),
\* for QoS 0 nothing; the PUBREL for the id is answered with PUBCOMP
\* (70 02 id) and no event.
C25_InboundPublishAcked ==
    (net.tcp = "active" /\ net.rx_rest = <<>>
        /\ client.parser_state = MQTT_PARSER_STATE_INIT) =>
        LET w0 == mqtt_data_recv_cb(World, PublishIn(0, 0), 0)
            w1 == mqtt_data_recv_cb(World, PublishIn(1, 7), 0)
            w2 == mqtt_data_recv_cb(World, PublishIn(2, 7), 0)
            w3 == mqtt_data_recv_cb(World, Pubrel(7), 0)
        IN /\ OnePublishRecv(w0, 0) /\ w0.g.stream = ghost.stream
           /\ OnePublishRecv(w1, 1) /\ Appended(w1, Puback(7))
           /\ OnePublishRecv(w2, 2) /\ Appended(w2, Pubrec(7))
           /\ w3.e = <<>> /\ Appended(w3, Pubcomp(7))

\* the first event the handler delivered is the completion of that kind for
\* slot i, with the slot's arg and that result, and the slot is free
Completes(w, i, kind, res) ==
    /\ Len(w.e) >= 1
    /\ w.e[1].type = kind
    /\ w.e[1].arg = client.requests[i].arg
    /\ w.e[1].res = res
    /\ "IN_USE" \notin w.c.requests[i].status

\* C26: a SUBACK whose packet id a pending subscribe has delivers
\* SUBSCRIBE{arg, OK} when its return code is below 3 and SUBSCRIBE{arg, ERR}
\* otherwise, and frees the slot; an UNSUBACK whose packet id a pending
\* unsubscribe has delivers UNSUBSCRIBE{arg, res} and frees the slot, with a
\* result that the bytes outside the UNSUBACK frame have no part in.
C26_SubackResult ==
    (net.tcp = "active" /\ net.rx_rest = <<>>
        /\ client.parser_state = MQTT_PARSER_STATE_INIT) =>
        \A i \in Pending(client) :
            LET id == client.requests[i].packet_id
            IN /\ ghost.kind[i] = "SUBSCRIBE" =>
                    \A rc \in {0, 1, 2, 3, 128} : \A junk \in {0, 128} :
                        Completes(mqtt_data_recv_cb(World, Suback(id, rc), junk), i,
                                  "SUBSCRIBE", IF rc < 3 THEN "OK" ELSE "ERR")
               /\ ghost.kind[i] = "UNSUBSCRIBE" =>
                    \E res \in {"OK", "ERR"} :
                        /\ \A junk \in {0, 128} :
                              Completes(mqtt_data_recv_cb(World, Unsuback(id), junk), i,
                                        "UNSUBSCRIBE", res)
                        /\ \A next \in {Pingresp, PublishIn(0, 0)} :
                              Completes(mqtt_data_recv_cb(World, Unsuback(id) \o next, 0), i,
                                        "UNSUBSCRIBE", res)

\* the POLL event now arriving is the one that makes poll_time * P reach
\* keep_alive * 1000, with keep-alive enabled
PollDue(c) ==
    /\ c.info.keep_alive # 0
    /\ (c.poll_time + 1) * GSM_CFG_CONN_POLL_INTERVAL >= c.info.keep_alive * 1000

\* the tx buffer has room for the two bytes of a PINGREQ
PingRoom(c) == gsm_buff_get_free(c.tx_buff) >= 2

\* the handler that took the world to w encoded a PINGREQ, C0 00
Pinged(w) == Appended(w, <<192, 0>>)

\* what holds of the handlers in every state of an open connection, but for
\* when a POLL event encodes the PINGREQ
KeepAliveHandlers ==
    net.tcp = "active" =>
        LET w == mqtt_poll_cb(World)
        IN /\ Pinged(w) => w.c.poll_time = 0
           /\ ~Pinged(w) => /\ w.g.stream = ghost.stream
                             /\ w.c.poll_time = client.poll_time + 1
           /\ \A f \in {Connack(0), Pingresp, <<32>>} :
                 mqtt_data_recv_cb(World, f, 0).c.poll_time = 0
           /\ net.inflight > 0 =>
                 mqtt_data_sent_cb([World EXCEPT !.n.inflight = 0],
                                   net.inflight, TRUE, "OK").c.poll_time = 0

\* poll_time grows by one, in a step that does nothing else, and no step
\* encodes a PINGREQ but one at which the POLL event is due
KeepAliveSteps ==
    /\ client'.poll_time > client.poll_time =>
            /\ client' = [client EXCEPT !.poll_time = @ + 1]
            /\ net' = net
    /\ (/\ ghost'.stream = ghost.stream + 2
        /\ Len(client'.tx_buff.data) >= 2
        /\ SubSeq(client'.tx_buff.data, Len(client'.tx_buff.data) - 1,
                  Len(client'.tx_buff.data)) = <<192, 0>>) => PollDue(client)

\* C27 as stated: on a POLL event of an open connection the PINGREQ is
\* encoded exactly when keep-alive is enabled, poll_time * P has reached
\* keep_alive * 1000 and the tx buffer has room for it, and poll_time is then
\* 0; otherwise nothing is encoded and poll_time is not reset; every inbound
\* block and every successful send resets poll_time.
C27_PingreqExactlyWhenDue ==
    /\ KeepAliveHandlers
    /\ net.tcp = "active" =>
            (Pinged(mqtt_poll_cb(World)) <=> (PollDue(client) /\ PingRoom(client)))

\* C27, amended: on a POLL event of an open connection the PINGREQ is encoded
\* exactly when the client is not disconnecting, keep-alive is enabled,
\* poll_time * P has reached keep_alive * 1000 and the tx buffer has room for
\* it, and poll_time is then 0; otherwise nothing is encoded and poll_time is
\* not reset (with keep-alive 0, never); every inbound block and every
\* successful send resets poll_time, and poll_time grows only by one per POLL
\* event, so that a PINGREQ comes only after keep_alive seconds of polls
\* with nothing received and nothing sent.
C27_KeepAlive ==
    /\ [](KeepAliveHandlers /\
            (net.tcp = "active" =>
                (Pinged(mqtt_poll_cb(World)) <=>
                    /\ client.conn_state # "CONN_DISCONNECTING"
                    /\ PollDue(client)
                    /\ PingRoom(client))))
    /\ [][KeepAliveSteps]_vars

\* a POLL event has encoded the PINGREQ of a client with keep-alive, reset
\* poll_time and handed the two bytes to the transport
C27_Witness ==
    /\ client.info.keep_alive # 0
    /\ client.poll_time = 0
    /\ net.inflight = 2
    /\ client.tx_buff.data = <<192, 0>>

\* what a delivery leaves for the application and the broker to see: the
\* events, the connection state, the requests, the bytes encoded
Delivered(w) ==
    [e |-> [i \in 1..Len(w.e) |->
                [type |-> w.e[i].type, arg |-> w.e[i].arg, res |-> w.e[i].res,
                 status |-> w.e[i].status, recv |-> w.e[i].recv,
                 conn_state |-> w.e[i].conn_state]],
     conn_state |-> w.c.conn_state, requests |-> w.c.requests,
     tx_buff |-> w.c.tx_buff, stream |-> w.g.stream, n |-> w.n,
     parser_state |-> w.c.parser_state]

\* the stream s delivered as the block of its first k bytes and the block of
\* the rest
SplitAt(s, k) ==
    mqtt_data_recv_cb(mqtt_data_recv_cb(World, SubSeq(s, 1, k), 0),
                      SubSeq(s, k + 1, Len(s)), 0)

\* streams of well-formed frames; the body of PublishIn(1, 7) is longer than
\* the rx buffer
SplitStreams ==
    {Connack(0), Pingresp \o Connack(0), Puback(1) \o Suback(2, 0),
     Suback(1, 128) \o Pingresp, PublishIn(0, 0), Pingresp \o PublishIn(0, 0),
     PublishIn(1, 7)}

\* C28: a stream of well-formed frames delivered in two blocks, split at any
\* byte, produces the events and the state changes it produces delivered in
\* one block; a CONNACK delivered as 20 and 02 00 00 to a connecting client
\* produces exactly one CONNECT event.
C28_SplitSameAsWhole ==
    (net.tcp = "active" /\ net.rx_rest = <<>>
        /\ client.parser_state = MQTT_PARSER_STATE_INIT) =>
        /\ \A s \in SplitStreams :
              LET whole == Delivered(mqtt_data_recv_cb(World, s, 0))
              IN \A k \in 1..(Len(s) - 1) : Delivered(SplitAt(s, k)) = whole
        /\ client.conn_state = "CONNECTING" =>
              LET w == SplitAt(Connack(0), 1)
              IN Len(w.e) = 1 /\ w.e[1].type = "CONNECT"

\* the tx buffer holds, in encode order, the bytes encoded over this
\* connection and not yet acknowledged, and the block lent to the transport
\* is at its front
TxIsUnackedStream ==
    /\ Len(client.tx_buff.data) = ghost.stream - ghost.acked
    /\ gsm_buff_get_full(client.tx_buff) = Len(client.tx_buff.data)
    /\ net.inflight <= Len(client.tx_buff.data)

\* a step of an open connection takes from the front of the tx buffer the
\* bytes the transport acknowledges, which are bytes of the block lent to
\* it, keeps the rest in order and puts the bytes it encodes at the back
TxFifoStep ==
    net'.tcp = "active" =>
        LET d == client.tx_buff.data
            k == ghost'.acked - ghost.acked
            a == ghost'.stream - ghost.stream
        IN /\ k >= 0 /\ a >= 0
           /\ k <= net.inflight
           /\ Len(client'.tx_buff.data) = Len(d) - k + a
           /\ SubSeq(client'.tx_buff.data, 1, Len(d) - k) = SubSeq(d, k + 1, Len(d))

\* C29: over the encodes, the partial and full SEND completions and the
\* wrap-arounds of one connection, the bytes the transport acknowledges are
\* the bytes encoded, in encode order, none skipped, reordered or
\* duplicated: the tx buffer always holds exactly the encoded bytes not yet
\* acknowledged, every acknowledgement takes bytes of the lent block from
\* its front, and every encode adds at its back.
C29_SentInEncodeOrder ==
    /\ []TxIsUnackedStream
    /\ [][TxFifoStep]_vars

\* a part of the stream is acknowledged, the bytes waiting lie across the
\* end of the ring, and the transport has the part of them up to the end
C29_Witness ==
    /\ ghost.acked > 0
    /\ client.tx_buff.r > client.tx_buff.w
    /\ client.is_sending = 1
    /\ 0 < net.inflight
    /\ net.inflight < Len(client.tx_buff.data)

\* the step is not the SEND completion of the outstanding send, nor the
\* CLOSE of the connection
SendStaysOutstanding ==
    /\ client.is_sending = 1
    /\ client'.is_sending = 1
    /\ client'.sent_total = client.sent_total
    /\ net'.tcp = "active"

\* C30: is_sending is set exactly while the transport holds a block of the
\* tx buffer, which lies within the bytes the buffer holds; and a step taken
\* while the send is outstanding leaves the read pointer and the block where
\* they are (no reset, no second send submitted) and the bytes of the block
\* as they were lent, later encodes going behind them within the room left.
C30_LentRegionUntouched ==
    /\ []((client.is_sending = 1) <=> (net.inflight > 0))
    /\ [](/\ net.inflight <= gsm_buff_get_linear_block_read_length(client.tx_buff)
          /\ Len(client.tx_buff.data) <= TxLen - 1)
    /\ [][SendStaysOutstanding =>
            /\ net'.inflight = net.inflight
            /\ client'.written_total = client.written_total
            /\ client'.tx_buff.r = client.tx_buff.r
            /\ Len(client'.tx_buff.data) >= Len(client.tx_buff.data)
            /\ SubSeq(client'.tx_buff.data, 1, Len(client.tx_buff.data))
                    = client.tx_buff.data]_vars

\* a packet has been encoded behind the block the transport holds
C30_Witness ==
    /\ client.is_sending = 1
    /\ 0 < net.inflight
    /\ net.inflight < Len(client.tx_buff.data)
    /\ client.written_total < ghost.stream

\* if the handler that took the world to w encoded anything, it was exactly
\* the packet pkt
EncodedOnly(w, pkt) == w.g.stream # ghost.stream => Appended(w, pkt)

\* C31: an acknowledgement the client encodes is four bytes: the type in the
\* high nibble with flag bits 0010 for PUBREL and 0000 for PUBACK, PUBREC and
\* PUBCOMP, the remaining length 2, and the packet id, high byte first,
\* whatever the QoS of the inbound packet it answers.
C31_AckHeaderFlags ==
    (net.tcp = "active" /\ net.rx_rest = <<>>
        /\ client.parser_state = MQTT_PARSER_STATE_INIT) =>
        \A id \in {1, 7, 258} :
            /\ EncodedOnly(mqtt_data_recv_cb(World, PublishIn(1, id), 0),
                           <<64, 2, id \div 256, id % 256>>)
            /\ EncodedOnly(mqtt_data_recv_cb(World, PublishIn(2, id), 0),
                           <<80, 2, id \div 256, id % 256>>)
            /\ EncodedOnly(mqtt_data_recv_cb(World, Pubrec(id), 0),
                           <<98, 2, id \div 256, id % 256>>)
            /\ EncodedOnly(mqtt_data_recv_cb(World, Pubrel(id), 0),
                           <<112, 2, id \div 256, id % 256>>)

\* the oversized frame was dropped and the PINGRESP behind it dispatched:
\* one KEEP_ALIVE event and nothing else, nothing encoded, no request
\* touched, the staging buffer of its length, the parser idle
DroppedThenPingresp(w) ==
    /\ Len(w.e) = 1
    /\ w.e[1].type = "KEEP_ALIVE"
    /\ w.g.stream = ghost.stream
    /\ w.c.requests = client.requests
    /\ w.c.conn_state = client.conn_state
    /\ Len(w.c.rx_buff) = RxLen
    /\ w.c.parser_state = MQTT_PARSER_STATE_INIT

\* C32: a frame whose remaining length exceeds the rx staging buffer,
\* followed by a PINGRESP, split at any of its bytes into two blocks, is
\* dropped with no dispatch and no write past the staging buffer, and the
\* PINGRESP after its last byte is dispatched.
C32_OversizedDiscarded ==
    (net.tcp = "active" /\ net.rx_rest = <<>>
        /\ client.parser_state = MQTT_PARSER_STATE_INIT) =>
        \A f \in {PublishIn(1, 7), PublishIn(2, 7)} :
            /\ f[2] > RxLen
            /\ \A k \in 1..(Len(f) - 1) : DroppedThenPingresp(SplitAt(f \o Pingresp, k))

\* the remaining-length bytes write_fixed_header puts behind the first byte
\* of a packet announced with remaining length v
RemLenEncoded(v) ==
    LET w == write_fixed_header(World, MQTT_MSG_TYPE_PUBLISH, 0, 0, 0, v)
    IN SubSeq(w.c.tx_buff.data, Len(client.tx_buff.data) + 2, Len(w.c.tx_buff.data))

\* the remaining length the parser holds after a first byte and those bytes
RemLenDecoded(bytes) ==
    mqtt_parse_incoming(World, <<MQTT_MSG_TYPE_PUBLISH * 16>> \o bytes, 0, 0).c.msg_rem_len

\* remaining lengths at the ends of the four ranges, and what a publish of a
\* one-byte topic and the largest payload announces at QoS 0 and QoS 1
RemLens ==
    {0, 1, 127, 128, 16383, 16384, U16 - 1, U16, U16 + 2, U16 + 4,
     2097151, 2097152, 268435455}

\* C33: for a remaining length v of 0..268,435,455 the parser decodes the
\* bytes write_fixed_header encodes for v back to v, and they are 1 byte for
\* 0..127, 2 for 128..16,383, 3 for 16,384..2,097,151 and 4 above.
C33_RemLenRoundTrip ==
    (gsm_buff_get_free(client.tx_buff) >= 5
        /\ client.parser_state = MQTT_PARSER_STATE_INIT) =>
        \A v \in RemLens :
            /\ RemLenDecoded(RemLenEncoded(v)) = v
            /\ Len(RemLenEncoded(v)) = IF v <= 127 THEN 1
                                       ELSE IF v <= 16383 THEN 2
                                       ELSE IF v <= 2097151 THEN 3
                                       ELSE 4

\* the args of the requests waiting for their completion
PendingArgs(c) == {c.requests[i].arg : i \in Pending(c)}

\* every request waiting has an arg of its own, given before the next one
ArgsTellRequestsApart ==
    \A i \in Pending(client) :
        /\ client.requests[i].arg < ghost.next_arg
        /\ \A j \in Pending(client) : client.requests[j].arg = client.requests[i].arg => j = i

\* the completion events of a step are for requests that waited before it
\* and do not wait after it, one event for each
CompletesWaitingOnce ==
    \A k \in Completions(evts') :
        /\ evts'[k].arg \in PendingArgs(client)
        /\ evts'[k].arg \notin PendingArgs(client')
        /\ \A m \in Completions(evts') : evts'[m].arg = evts'[k].arg => m = k

\* C34: a request gets at most one completion event: requests are told apart
\* by args that are never given again, every completion event of a step (an
\* acknowledgement, the QoS-0 accounting of a SEND completion, the CLOSE) is
\* for a request that waited before the step, no two of them for the same
\* one, and the request does not wait after it.
C34_AtMostOneCompletion ==
    /\ []ArgsTellRequestsApart
    /\ [][ghost'.next_arg >= ghost.next_arg]_vars
    /\ [][CompletesWaitingOnce]_vars

\* a request has just been completed while another one still waits and the
\* connection stays open
C34_Witness ==
    /\ Completions(evts) # {}
    /\ Pending(client) # {}
    /\ net.tcp = "active"

\* the kind of the request in slot i, as its status flags tell it
KindOf(c, i) ==
    IF "SUBSCRIBE" \in c.requests[i].status THEN "SUBSCRIBE"
    ELSE IF "UNSUBSCRIBE" \in c.requests[i].status THEN "UNSUBSCRIBE"
    ELSE "PUBLISH"

\* every completion event the handler delivered for the request of slot i
\* has the kind of that request
CompletedInKind(w, i) ==
    \A k \in Completions(w.e) :
        w.e[k].arg = client.requests[i].arg => w.e[k].type = KindOf(client, i)

\* the four final acknowledgements with that packet id
FinalAcks(id) == {Puback(id), Pubcomp(id), Suback(id, 0), Unsuback(id)}

\* C35: whichever of PUBACK, PUBCOMP, SUBACK and UNSUBACK the broker sends
\* with the packet id of a waiting request, and when the connection closes,
\* a completion event for the request has the kind of the request: PUBLISH
\* for a publish, SUBSCRIBE for a subscribe, UNSUBSCRIBE for an unsubscribe.
C35_CompletionKindIsRequestKind ==
    (net.tcp = "active" /\ net.rx_rest = <<>>
        /\ client.parser_state = MQTT_PARSER_STATE_INIT) =>
        \A i \in Pending(client) :
            /\ KindOf(client, i) = ghost.kind[i]
            /\ CompletedInKind(Closed, i)
            /\ \A f \in FinalAcks(client.requests[i].packet_id) :
                    CompletedInKind(mqtt_data_recv_cb(World, f, 0), i)

\* C36: while a QoS-0 publish waits (packet id 0), a PUBACK, PUBCOMP, SUBACK
\* or UNSUBACK with packet id 0 delivers no event and leaves the request
\* table as it is.
C36_IdZeroAckMatchesNothing ==
    (net.tcp = "active" /\ net.rx_rest = <<>>
        /\ client.parser_state = MQTT_PARSER_STATE_INIT
        /\ \E i \in Pending(client) : client.requests[i].packet_id = 0) =>
        \A f \in FinalAcks(0) :
            LET w == mqtt_data_recv_cb(World, f, 0)
            IN w.e = <<>> /\ w.c.requests = client.requests

\* C37: from DISCONNECTING the client moves to DISCONNECTED only: no step,
\* of a transport event or of an API call, takes it from DISCONNECTING to
\* another state.
C37_DisconnectingOnlyToDisconnected ==
    [][client.conn_state = "CONN_DISCONNECTING" =>
            client'.conn_state \in {"CONN_DISCONNECTING", "CONN_DISCONNECTED"}]_vars

\* the is_accepted of the DISCONNECT event the close of the world w delivers
ClosedAccepted(w) == mqtt_closed_cb(w).e[1].is_accepted

\* C38: a connection that closes while the client still waits for the
\* CONNACK (state CONNECTING since the ACTIVE event, so that none has been
\* accepted on it) reports DISCONNECT{is_accepted = false}, whether the
\* transport closes it or the application does with disconnect().
C38_AcceptedOnlyAfterConnack ==
    (net.tcp = "active" /\ client.conn_state = "CONNECTING") =>
        /\ mqtt_closed_cb(World).e[1].type = "DISCONNECT"
        /\ ~ClosedAccepted(World)
        /\ \A cres \in Results : ~ClosedAccepted(gsm_mqtt_client_disconnect(World, cres).w)

\* C39: a POLL event encodes a PINGREQ only in the state CONNECTED, not
\* while the client waits for the CONNACK and not once a close is under way.
C39_PingreqOnlyWhenConnected ==
    net.tcp = "active" =>
        LET w == mqtt_poll_cb(World)
        IN /\ Pinged(w) => client.conn_state = "CONNECTED"
           /\ client.conn_state # "CONNECTED" => w.g.stream = ghost.stream

\* the slots of the QoS-0 publishes waiting for their bytes to be sent
PendingQos0(c) == {i \in Pending(c) : c.requests[i].packet_id = 0}

\* positions in the events of a step of the PUBLISH{OK} events of QoS-0
\* publishes that waited before it
DoneQos0 ==
    {k \in Completions(evts') :
        /\ evts'[k].type = "PUBLISH"
        /\ evts'[k].res = "OK"
        /\ \E i \in PendingQos0(client) : client.requests[i].arg = evts'[k].arg}

\* the QoS-0 publishes a step completes are completed oldest first, and
\* none older is left waiting
Qos0DoneInOrder ==
    \A k \in DoneQos0 :
        /\ \A m \in DoneQos0 : m < k => evts'[m].arg < evts'[k].arg
        /\ \A i \in PendingQos0(client') : client'.requests[i].arg > evts'[k].arg

\* no QoS-0 publish that the sent-bytes accounting takes for sent, and whose
\* bytes the transport has acknowledged, waits while a later one waits
\* whose bytes are not acknowledged
NoQos0HeldBack ==
    \A i, j \in PendingQos0(client) :
        ~(/\ client.requests[i].arg < client.requests[j].arg
          /\ ghost.end[i] <= ghost.acked
          /\ client.sent_total >= client.requests[i].expected_sent_len
          /\ ghost.end[j] > ghost.acked)

\* C40: the PUBLISH{OK} events of QoS-0 publishes come in the order the
\* publishes were accepted, and a QoS-0 publish whose bytes are all
\* acknowledged does not wait behind a later one whose bytes are not,
\* whatever slots of the request table the publishes took.
C40_Qos0CompletedInOrder ==
    /\ [][Qos0DoneInOrder]_vars
    /\ [](net.inflight = 0 => NoQos0HeldBack)

====
